---- MODULE Spec2Model ----
(***************************************************************************)
(* Front end of the C-subset compiler: the buffered character source and   *)
(* the lexer of src/src/lexeme.c, the recursive-descent parser of          *)
(* src/unnamed/part_001, the tree model of src/src/ast.c and the           *)
(* diagnostic counter of error.c.                                          *)
(*                                                                         *)
(* A character is a one-character string; NUL stands for '\0'.  A C string *)
(* is the sequence of its characters without the terminator.  An optional  *)
(* pointer is a sequence of length 0 (NULL) or 1.                          *)
(***************************************************************************)
EXTENDS Integers, Sequences, FiniteSets, TLC

RECURSIVE Call(_, _, _)

\* ------------------------------------------------------------------------
\* Bounds of the model
\* ------------------------------------------------------------------------

\* longest free-form input of the lexer specification
MaxLen == 3
\* largest scaled-down buffer size of the lexer specification
MaxBuf == 3
\* most operators in one expression of the expression specification
MaxOps == 2
\* most loop iterations without a consumed token the parser model follows
MaxStall == 2
MaxDecls == 2
MaxSoup == 2
\* most tokens of an input of the expect_token specification, and most
\* calls of expect_token the specification follows
MaxTokens == 2
MaxCalls == 3
\* most arguments of a call of the call specification: one more than the
\* capacity a child vector starts with
MaxArgs == 5
\* most postfix operators after the first operand of the operator
\* specification
MaxPostfix == 2
\* most if statements in the statement of the if specification
MaxIfs == 3

\* ------------------------------------------------------------------------
\* Characters (ctype.h in the "C" locale)
\* ------------------------------------------------------------------------

NUL == "NUL"

Letters ==
    {"a","b","c","d","e","f","g","h","i","j","k","l","m","n","o","p","q","r",
     "s","t","u","v","w","x","y","z",
     "A","B","C","D","E","F","G","H","I","J","K","L","M","N","O","P","Q","R",
     "S","T","U","V","W","X","Y","Z"}

DigitChars == {"0","1","2","3","4","5","6","7","8","9"}

isalpha(c) == c \in Letters

isdigit(c) == c \in DigitChars

isalnum(c) == isalpha(c) \/ isdigit(c)

isspace(c) == c \in {" ", "\t", "\n", "\r", "\f"}

Min(a, b) == IF a < b THEN a ELSE b

\* ------------------------------------------------------------------------
\* Tokens
\* ------------------------------------------------------------------------

Token(type, value, line, column) ==
    [type |-> type, value |-> value, line |-> line, column |-> column]

\* lexer->current before the first advance_token (init_lexer, lines 52-53)
NoToken == Token("ERROR", <<>>, 0, 0)

\* ------------------------------------------------------------------------
\* The machine state threaded through the operators below is one record m:
\*   data, fpos, feof             the FILE: contents, read offset, EOF flag
\*   buffer, buffer_size, position, line, column, current     the Lexer
\*   error_count, stderr          error.c's counter and the diagnostics
\*   valid                        bytes the last fread put in the buffer
\*   off                          number of advance_char calls so far
\*   tok_off                      value of off where the last token began
\*   junk, ub                     what uninitialised memory holds, and what
\*                                the build does on undefined behaviour
\*   crashed                      the process has been killed
\*   ret                          the return value of the last call
\* ------------------------------------------------------------------------

\* fread(lexer->buffer, 1, lexer->buffer_size, file)
fread(m) ==
    LET n == Min(m.buffer_size, Len(m.data) - m.fpos)
    IN  [m EXCEPT !.buffer = [i \in 1..m.buffer_size |->
                                 IF i <= n THEN m.data[m.fpos + i] ELSE m.buffer[i]],
                  !.fpos = m.fpos + n,
                  !.feof = m.feof \/ n < m.buffer_size,
                  !.ret = n]

\* the '\0' written after a short read (lines 45 and 81)
terminate_buffer(m, bytes_read) ==
    IF bytes_read < m.buffer_size
    THEN [m EXCEPT !.buffer = [m.buffer EXCEPT ![bytes_read + 1] = NUL]]
    ELSE m

\* The local operators of the definitions below take the machine as a call
\* has left it: read(r) is what follows "r = fread(...)", and so on.

reload_buffer(m) ==
    LET read(r) ==
            IF r.ret = 0 THEN [r EXCEPT !.ret = 0]
            ELSE [terminate_buffer(r, r.ret) EXCEPT
                      !.position = 0, !.valid = r.ret, !.ret = 1]
    IN  IF m.feof THEN [m EXCEPT !.ret = 0] ELSE read(fread(m))

current_char(m) ==
    LET reloaded(r) ==
            IF r.ret = 0 THEN [r EXCEPT !.ret = NUL]
            ELSE [r EXCEPT !.ret = r.buffer[r.position + 1]]
    IN  IF m.position >= m.buffer_size THEN reloaded(reload_buffer(m))
        ELSE [m EXCEPT !.ret = m.buffer[m.position + 1]]

\* advance_char without the line++ of line 99
advance_char_keep_line(m) ==
    LET step(c) ==
            [c EXCEPT !.column = IF c.ret = "\n" THEN 1 ELSE c.column + 1,
                      !.position = c.position + 1,
                      !.off = c.off + 1]
    IN  step(current_char(m))

advance_char(m) ==
    LET step(c) ==
            [c EXCEPT !.line = IF c.ret = "\n" THEN c.line + 1 ELSE c.line,
                      !.column = IF c.ret = "\n" THEN 1 ELSE c.column + 1,
                      !.position = c.position + 1,
                      !.off = c.off + 1]
    IN  step(current_char(m))

peek_char(m) ==
    IF m.position + 1 >= m.buffer_size THEN NUL
    ELSE m.buffer[m.position + 2]

RECURSIVE skip_whitespace(_)
skip_whitespace(m) ==
    LET loop(c) == IF isspace(c.ret) THEN skip_whitespace(advance_char(c)) ELSE c
    IN  loop(current_char(m))

\* error_report_location: one line on stderr, error_count++
error_report_location(m, line, column, message) ==
    [m EXCEPT !.stderr = Append(m.stderr,
                  [line |-> line, column |-> column, message |-> message]),
              !.error_count = m.error_count + 1]

lexer_error(m, message) == error_report_location(m, m.line, m.column, message)

RECURSIVE skip_line_rest(_)
skip_line_rest(m) ==
    LET loop(c) ==
            IF c.ret # "\n" /\ c.ret # NUL THEN skip_line_rest(advance_char(c))
            ELSE c
    IN  loop(current_char(m))

RECURSIVE skip_block_rest(_)
skip_block_rest(m) ==
    LET loop(c) ==
            IF ~(c.ret = "*" /\ peek_char(c) = "/") /\ c.ret # NUL
            THEN skip_block_rest(advance_char(c))
            ELSE c
    IN  loop(current_char(m))

skip_comments(m) ==
    LET line_end(e) == IF e.ret = "\n" THEN advance_char(e) ELSE e
        block_end(e) ==
            IF e.ret # NUL THEN advance_char(advance_char(e))
            ELSE lexer_error(e, <<"Unterminated multi-line comment">>)
        start(c) ==
            IF c.ret = "/" /\ peek_char(c) = "/"
            THEN line_end(skip_line_rest(advance_char(advance_char(c))))
            ELSE IF c.ret = "/" /\ peek_char(c) = "*"
            THEN block_end(skip_block_rest(advance_char(advance_char(c))))
            ELSE c
    IN  start(current_char(m))

\* the byte at buffer + i; past the allocation the read is undefined
BufAt(m, i) == IF i < m.buffer_size THEN m.buffer[i + 1] ELSE m.junk

\* strncpy(value, lexer->buffer + start, length); value[length] = '\0':
\* the C string that results, which ends at the first '\0' copied
RECURSIVE strncpy_buffer(_, _, _)
strncpy_buffer(m, start, length) ==
    IF length <= 0 \/ BufAt(m, start) = NUL THEN <<>>
    ELSE <<BufAt(m, start)>> \o strncpy_buffer(m, start + 1, length - 1)

\* malloc(length + 1) and strncpy with a negative length: undefined
\* behaviour, which kills the process or leaves an arbitrary lexeme
copy_lexeme(m, start, length) ==
    IF length < 0
    THEN IF m.ub = "crash" THEN [m EXCEPT !.crashed = TRUE, !.ret = <<>>]
         ELSE [m EXCEPT !.ret = IF m.junk = NUL THEN <<>> ELSE <<m.junk>>]
    ELSE [m EXCEPT !.ret = strncpy_buffer(m, start, length)]

keyword_type(value) ==
    CASE value = <<"i","n","t">> -> "INT"
      [] value = <<"c","h","a","r">> -> "CHAR"
      [] value = <<"v","o","i","d">> -> "VOID"
      [] value = <<"i","f">> -> "IF"
      [] value = <<"e","l","s","e">> -> "ELSE"
      [] value = <<"w","h","i","l","e">> -> "WHILE"
      [] value = <<"f","o","r">> -> "FOR"
      [] value = <<"r","e","t","u","r","n">> -> "RETURN"
      [] OTHER -> "IDENTIFIER"

RECURSIVE scan_identifier_run(_)
scan_identifier_run(m) ==
    LET loop(c) ==
            IF isalnum(c.ret) \/ c.ret = "_"
            THEN scan_identifier_run(advance_char(c))
            ELSE c
    IN  loop(current_char(m))

scan_identifier(m) ==
    LET token(v) ==
            [v EXCEPT !.ret = Token(keyword_type(v.ret), v.ret, m.line, m.column)]
        lexeme(e) == token(copy_lexeme(e, m.position, e.position - m.position))
    IN  lexeme(scan_identifier_run(m))

RECURSIVE scan_number_run(_)
scan_number_run(m) ==
    LET loop(c) == IF isdigit(c.ret) THEN scan_number_run(advance_char(c)) ELSE c
    IN  loop(current_char(m))

scan_number(m) ==
    LET token(v) == [v EXCEPT !.ret = Token("INTEGER", v.ret, m.line, m.column)]
        lexeme(e) == token(copy_lexeme(e, m.position, e.position - m.position))
    IN  lexeme(scan_number_run(m))

\* the character an escape letter stands for; "none" for an invalid one
escape_value(c) ==
    CASE c = "n" -> "\n"
      [] c = "t" -> "\t"
      [] c = "r" -> "\r"
      [] c = "0" -> NUL
      [] c = "\\" -> "\\"
      [] c = "'" -> "'"
      [] c = "\"" -> "\""
      [] OTHER -> "none"

\* char value[2] = {c, '\0'} as a C string
char_lexeme(c) == IF c = NUL THEN <<>> ELSE <<c>>

\* scan_character_close with one more byte skipped when the closing quote is
\* missing
scan_character_close_skip(m, c, start_line, start_col) ==
    LET close(q) ==
            IF q.ret # "'"
            THEN [advance_char(lexer_error(q, <<"Unterminated character literal">>))
                     EXCEPT
                     !.ret = Token("ERROR", <<"Unterminated character literal">>,
                                   start_line, start_col)]
            ELSE [advance_char(q) EXCEPT
                     !.ret = Token("CHARACTER", char_lexeme(c),
                                   start_line, start_col)]
    IN  close(current_char(m))

\* the closing quote and the token (lines 254-277); m is past the character
scan_character_close(m, c, start_line, start_col) ==
    LET close(q) ==
            IF q.ret # "'"
            THEN [lexer_error(q, <<"Unterminated character literal">>) EXCEPT
                     !.ret = Token("ERROR", <<"Unterminated character literal">>,
                                   start_line, start_col)]
            ELSE [advance_char(q) EXCEPT
                     !.ret = Token("CHARACTER", char_lexeme(c),
                                   start_line, start_col)]
    IN  close(current_char(m))

scan_character(m) ==
    LET escape(e) ==
            IF escape_value(e.ret) = "none"
            THEN [lexer_error(e, <<"Invalid escape sequence">>) EXCEPT
                     !.ret = Token("ERROR", <<"Invalid escape sequence">>,
                                   m.line, m.column)]
            ELSE scan_character_close(advance_char(e), escape_value(e.ret),
                                      m.line, m.column)
        first(c) ==
            IF c.ret = "\\" THEN escape(current_char(advance_char(c)))
            ELSE scan_character_close(advance_char(c), c.ret, m.line, m.column)
    IN  first(current_char(advance_char(m)))

\* the loop of scan_string; ret is the local variable length at its end
RECURSIVE scan_string_run(_, _)
scan_string_run(m, length) ==
    LET escape(e) ==
            IF e.ret = NUL THEN [e EXCEPT !.ret = length]
            ELSE scan_string_run(advance_char(e), length + 1)
        loop(c) ==
            IF c.ret # "\"" /\ c.ret # NUL
            THEN IF c.ret = "\\" THEN escape(current_char(advance_char(c)))
                 ELSE scan_string_run(advance_char(c), length + 1)
            ELSE [c EXCEPT !.ret = length]
    IN  loop(current_char(m))

scan_string(m) ==
    LET close(start, length, q) ==
            IF q.ret = NUL
            THEN [lexer_error(q, <<"Unterminated string literal">>) EXCEPT
                     !.ret = Token("ERROR", <<"Unterminated string literal">>,
                                   m.line, m.column)]
            ELSE [advance_char(q) EXCEPT
                     !.ret = Token("STRING", strncpy_buffer(q, start, length),
                                   m.line, m.column)]
        run(start, e) == close(start, e.ret, current_char(e))
        open(a) == run(a.position, scan_string_run(a, 0))
    IN  open(advance_char(m))

\* the token kind of a one-character operator or punctuation; "ERROR" for a
\* character the switch of get_token does not list
single_type(c) ==
    CASE c = "+" -> "PLUS"
      [] c = "-" -> "MINUS"
      [] c = "*" -> "STAR"
      [] c = "/" -> "SLASH"
      [] c = "%" -> "PERCENT"
      [] c = "=" -> "ASSIGN"
      [] c = "!" -> "NOT"
      [] c = "<" -> "LT"
      [] c = ">" -> "GT"
      [] c = "&" -> "BITAND"
      [] c = "|" -> "BITOR"
      [] c = "^" -> "BITXOR"
      [] c = "~" -> "BITNOT"
      [] c = ";" -> "SEMICOLON"
      [] c = ":" -> "COLON"
      [] c = "," -> "COMMA"
      [] c = "." -> "DOT"
      [] c = "(" -> "LPAREN"
      [] c = ")" -> "RPAREN"
      [] c = "{" -> "LBRACE"
      [] c = "}" -> "RBRACE"
      [] c = "[" -> "LBRACKET"
      [] c = "]" -> "RBRACKET"
      [] c = "#" -> "POUND"
      [] OTHER -> "ERROR"

\* the token kind of the two-character operator c d; "none" when the case
\* of c in the switch of get_token has no branch for d
\* double_type without the case of ">="
double_type_short(c, d) ==
    CASE c = "+" /\ d = "+" -> "INC"
      [] c = "-" /\ d = "-" -> "DEC"
      [] c = "=" /\ d = "=" -> "EQ"
      [] c = "!" /\ d = "=" -> "NEQ"
      [] c = "<" /\ d = "=" -> "LTE"
      [] c = "<" /\ d = "<" -> "SHL"
      [] c = ">" /\ d = ">" -> "SHR"
      [] c = "&" /\ d = "&" -> "AND"
      [] c = "|" /\ d = "|" -> "OR"
      [] OTHER -> "none"

double_type(c, d) ==
    CASE c = "+" /\ d = "+" -> "INC"
      [] c = "-" /\ d = "-" -> "DEC"
      [] c = "=" /\ d = "=" -> "EQ"
      [] c = "!" /\ d = "=" -> "NEQ"
      [] c = "<" /\ d = "=" -> "LTE"
      [] c = "<" /\ d = "<" -> "SHL"
      [] c = ">" /\ d = "=" -> "GTE"
      [] c = ">" /\ d = ">" -> "SHR"
      [] c = "&" /\ d = "&" -> "AND"
      [] c = "|" /\ d = "|" -> "OR"
      [] OTHER -> "none"

\* the cases of the switch that look at the character after the first
TwoCharFirst == {"+", "-", "=", "!", "<", ">", "&", "|"}

\* the switch of get_token (lines 380-565); m.ret is the current character
scan_operator(m, start_line, start_col) ==
    LET c == m.ret
        second(d) ==
            IF double_type(c, d.ret) # "none"
            THEN [advance_char(d) EXCEPT
                     !.ret = Token(double_type(c, d.ret), <<c, d.ret>>,
                                   start_line, start_col)]
            ELSE [d EXCEPT
                     !.ret = Token(single_type(c), <<c>>, start_line, start_col)]
    IN  IF c \in TwoCharFirst THEN second(current_char(advance_char(m)))
        ELSE IF single_type(c) # "ERROR"
        THEN [advance_char(m) EXCEPT
                 !.ret = Token(single_type(c), <<c>>, start_line, start_col)]
        ELSE [advance_char(lexer_error(m, <<"Unexpected character: ", c>>)) EXCEPT
                 !.ret = Token("ERROR", <<"Unexpected character: ", c>>,
                               start_line, start_col)]

\* the comment loop of get_token (lines 335-339)
RECURSIVE skip_all_comments(_)
skip_all_comments(m) ==
    LET loop(c) ==
            IF c.ret = "/" /\ (peek_char(c) = "/" \/ peek_char(c) = "*")
            THEN skip_all_comments(skip_whitespace(skip_comments(c)))
            ELSE c
    IN  loop(current_char(m))

\* the block the next malloc of a lexeme returns: the first that is free
fresh_lexeme(m) ==
    CHOOSE id \in 1..(Cardinality(m.lexemes) + 1) :
        /\ id \notin m.lexemes
        /\ \A other \in 1..(id - 1) : other \in m.lexemes

\* the malloc or strdup that every return of get_token has made for the
\* token's value
lexeme_alloc(m) == [m EXCEPT !.lexemes = m.lexemes \cup {fresh_lexeme(m)}]

\* free of a token's value
lexeme_free(m, id) ==
    IF id \in m.lexemes THEN [m EXCEPT !.lexemes = m.lexemes \ {id}]
    ELSE [m EXCEPT !.bad_free = TRUE]

get_token(m) ==
    LET scan(c) ==
            IF c.ret = NUL
            THEN [c EXCEPT !.ret = Token("EOF", <<"E","O","F">>, c.line, c.column)]
            ELSE IF isalpha(c.ret) \/ c.ret = "_" THEN scan_identifier(c)
            ELSE IF isdigit(c.ret) THEN scan_number(c)
            ELSE IF c.ret = "'" THEN scan_character(c)
            ELSE IF c.ret = "\"" THEN scan_string(c)
            ELSE scan_operator(c, c.line, c.column)
        start(s) == scan([current_char(s) EXCEPT !.tok_off = s.off])
    IN  lexeme_alloc(start(skip_all_comments(skip_whitespace(m))))

\* advance_token that leaves the lexeme of the token it replaces allocated
advance_token_keep(m) ==
    LET got(g) == [g EXCEPT !.current = g.ret, !.lexeme = <<fresh_lexeme(m)>>]
    IN  got(get_token(m))

\* if (lexer->current.value) free(lexer->current.value);
\* lexer->current = get_token(lexer);
advance_token(m) ==
    LET released == IF m.lexeme # <<>> THEN lexeme_free(m, m.lexeme[1]) ELSE m
        got(g) == [g EXCEPT !.current = g.ret, !.lexeme = <<fresh_lexeme(released)>>]
    IN  got(get_token(released))

peek_token(m) == [m EXCEPT !.ret = m.current]

\* init_lexer from the first fread on (lines 43-56); m holds the malloc'ed,
\* still uninitialised buffer
init_lexer(m) ==
    LET read(r) ==
            advance_token([terminate_buffer(r, r.ret) EXCEPT
                !.valid = r.ret, !.position = 0, !.line = 1, !.column = 1,
                !.current = NoToken])
    IN  read(fread(m))

\* ------------------------------------------------------------------------
\* The tree (ast.h, ast.c).  A node is [type, id, children, children_capacity,
\* data]: id names the malloc'ed ASTNode, children is the child vector (its
\* array is allocated when children_capacity > 0) and data holds the fields of
\* the union member of the node's type.  An owned string is [id, text].
\* The machine record also carries
\*   next_id, live     the allocator: the next fresh id, the ids not yet freed
\*   bad_free          an id was freed that was not live
\*   lexemes           the blocks of the token lexemes allocated and not yet
\*                     freed; a block freed is the first to be used again
\*   lexeme            lexer->current.value, as an optional pointer
\*   token_lexeme      parser->current_token.value, as an optional pointer
\*   current_token     the Parser's copy of the current token
\*   consumed          the number of tokens the parser has consumed
\* No allocation fails.
\* ------------------------------------------------------------------------

INITIAL_CHILDREN_CAPACITY == 4

ListTypes ==
    {"AST_PROGRAM", "AST_PARAM_LIST", "AST_COMPOUND_STMT", "AST_EXPR_STMT",
     "AST_ARG_LIST"}

\* the fields create_ast_node initialises, by node type; a field it leaves
\* unset holds "unset" until the parser assigns it
initial_data(type) ==
    CASE type = "AST_FUNCTION" ->
             [name |-> <<>>, return_type |-> "unset", parameters |-> <<>>,
              body |-> <<>>]
      [] type = "AST_PARAMETER" ->
             [name |-> <<>>, type |-> "unset", is_array |-> 0]
      [] type = "AST_VARIABLE_DECL" ->
             [name |-> <<>>, type |-> "unset", is_array |-> 0, array_size |-> 0,
              initializer |-> <<>>]
      [] type = "AST_IF_STMT" ->
             [condition |-> <<>>, if_branch |-> <<>>, else_branch |-> <<>>]
      [] type = "AST_WHILE_STMT" -> [condition |-> <<>>, body |-> <<>>]
      [] type = "AST_RETURN_STMT" -> [value |-> <<>>]
      [] type \in {"AST_BINARY_EXPR", "AST_ASSIGN_EXPR"} ->
             [op |-> "unset", left |-> <<>>, right |-> <<>>]
      [] type = "AST_UNARY_EXPR" -> [op |-> "unset", operand |-> <<>>]
      [] type = "AST_CALL_EXPR" -> [function |-> <<>>, arguments |-> <<>>]
      [] type = "AST_SUBSCRIPT_EXPR" -> [array |-> <<>>, index |-> <<>>]
      [] type = "AST_IDENTIFIER" -> [name |-> <<>>]
      [] type = "AST_STRING" -> [value |-> <<>>]
      [] type = "AST_INTEGER" -> [value |-> 0]
      [] type = "AST_CHARACTER" -> [value |-> NUL]
      [] OTHER -> <<>>

\* malloc: a fresh id
malloc(m) ==
    [m EXCEPT !.live = m.live \cup {m.next_id}, !.next_id = m.next_id + 1,
              !.ret = m.next_id]

\* free(p): releasing what is not live is a double free
free(m, id) ==
    IF id \in m.live THEN [m EXCEPT !.live = m.live \ {id}]
    ELSE [m EXCEPT !.bad_free = TRUE]

\* strdup(s): ret is the owned string, as an optional pointer
strdup(m, text) ==
    LET a == Call("malloc", m, <<>>) IN [a EXCEPT !.ret = <<[id |-> a.ret, text |-> text]>>]

\* create_ast_node(type): ret is the node, as an optional pointer
create_ast_node(m, type) ==
    LET a == Call("malloc", m, <<>>)
        node == [type |-> type, id |-> a.ret, children |-> <<>>,
                 children_array |-> <<>>, children_capacity |-> 0,
                 data |-> initial_data(type)]
    IN  IF type \in ListTypes
        THEN LET c == Call("malloc", a, <<>>)
             IN  [c EXCEPT !.ret = <<[node EXCEPT
                                         !.children_array = <<c.ret>>,
                                         !.children_capacity =
                                             INITIAL_CHILDREN_CAPACITY]>>]
        ELSE [a EXCEPT !.ret = <<node>>]

\* realloc(p, size); p is an optional pointer.  The resized block keeps
\* the name of the block it replaces.
realloc(m, p) ==
    IF p = <<>> THEN LET a == Call("malloc", m, <<>>) IN [a EXCEPT !.ret = <<a.ret>>]
    ELSE [m EXCEPT !.ret = p]

\* add_child that leaves the child out when the child vector is full
add_child_when_room(m, parent, child) ==
    IF child = <<>> \/ Len(parent.children) >= parent.children_capacity
    THEN [m EXCEPT !.ret = <<parent>>]
    ELSE [m EXCEPT !.ret = <<[parent EXCEPT
                                 !.children = Append(parent.children, child[1])]>>]

\* add_child(parent, child) on the node parent; child is an optional
\* pointer.  ret is the parent as it is afterwards, as an optional pointer.
add_child(m, parent, child) ==
    IF child = <<>> THEN [m EXCEPT !.ret = <<parent>>]
    ELSE IF Len(parent.children) >= parent.children_capacity
    THEN LET new_capacity ==
                 IF parent.children_capacity * 2 = 0
                 THEN INITIAL_CHILDREN_CAPACITY
                 ELSE parent.children_capacity * 2
             a == Call("realloc", m, <<parent.children_array>>)
         IN  [a EXCEPT !.ret = <<[parent EXCEPT
                                     !.children_array = a.ret,
                                     !.children_capacity = new_capacity,
                                     !.children = Append(parent.children, child[1])]>>]
    ELSE [m EXCEPT !.ret = <<[parent EXCEPT
                                 !.children = Append(parent.children, child[1])]>>]

\* the owned strings and the child slots free_ast releases for a node, in
\* the order of its switch
owned_strings(node) ==
    CASE node.type \in {"AST_FUNCTION", "AST_PARAMETER", "AST_VARIABLE_DECL",
                        "AST_IDENTIFIER"} -> node.data.name
      [] node.type = "AST_STRING" -> node.data.value
      [] OTHER -> <<>>

\* owned_slots without the else branch of an if statement
owned_slots_no_else(node) ==
    CASE node.type = "AST_FUNCTION" -> node.data.parameters \o node.data.body
      [] node.type = "AST_VARIABLE_DECL" -> node.data.initializer
      [] node.type = "AST_IF_STMT" -> node.data.condition \o node.data.if_branch
      [] node.type = "AST_WHILE_STMT" -> node.data.condition \o node.data.body
      [] node.type = "AST_RETURN_STMT" -> node.data.value
      [] node.type \in {"AST_BINARY_EXPR", "AST_ASSIGN_EXPR"} ->
             node.data.left \o node.data.right
      [] node.type = "AST_UNARY_EXPR" -> node.data.operand
      [] node.type = "AST_CALL_EXPR" -> node.data.function \o node.data.arguments
      [] node.type = "AST_SUBSCRIPT_EXPR" -> node.data.array \o node.data.index
      [] OTHER -> <<>>

owned_slots(node) ==
    CASE node.type = "AST_FUNCTION" -> node.data.parameters \o node.data.body
      [] node.type = "AST_VARIABLE_DECL" -> node.data.initializer
      [] node.type = "AST_IF_STMT" ->
             node.data.condition \o node.data.if_branch \o node.data.else_branch
      [] node.type = "AST_WHILE_STMT" -> node.data.condition \o node.data.body
      [] node.type = "AST_RETURN_STMT" -> node.data.value
      [] node.type \in {"AST_BINARY_EXPR", "AST_ASSIGN_EXPR"} ->
             node.data.left \o node.data.right
      [] node.type = "AST_UNARY_EXPR" -> node.data.operand
      [] node.type = "AST_CALL_EXPR" -> node.data.function \o node.data.arguments
      [] node.type = "AST_SUBSCRIPT_EXPR" -> node.data.array \o node.data.index
      [] OTHER -> <<>>

\* the blocks free_ast(node) passes to free, in the order of the calls; node
\* is an optional pointer.  released_all is the same for a sequence of nodes.
RECURSIVE released(_)
RECURSIVE released_all(_)
released_all(nodes) ==
    IF nodes = <<>> THEN <<>>
    ELSE released(<<Head(nodes)>>) \o released_all(Tail(nodes))

released(node) ==
    IF node = <<>> THEN <<>>
    ELSE LET n == node[1]
         IN  released_all(n.children)
                 \o n.children_array
                 \o [i \in 1..Len(owned_strings(n)) |-> owned_strings(n)[i].id]
                 \o released_all(owned_slots(n))
                 \o <<n.id>>

\* free called on each of blocks in order: every block is released, and a
\* call on a block that is not live, because it never was or because an
\* earlier call released it, is a bad free
free_each(m, blocks) ==
    [m EXCEPT
        !.live = m.live \ {blocks[i] : i \in 1..Len(blocks)},
        !.bad_free = \/ m.bad_free
                     \/ \E i \in 1..Len(blocks) :
                            \/ blocks[i] \notin m.live
                            \/ \E j \in 1..(i - 1) : blocks[j] = blocks[i]]

free_ast(m, node) == free_each(m, released(node))

\* ------------------------------------------------------------------------
\* The parser (part_001).  The calls of the parse functions that are open
\* are the frames of m.stack, innermost last; the parser is run one piece at
\* a time, a piece being what the running function does between two calls
\* or returns of parse functions.  A frame is
\*   fn          the function the frame belongs to
\*   at          where in fn the call is: "entry" before its first statement,
\*               otherwise the call of a parse function it waits for
\*   node        the node fn is building
\*   args        the argument list parse_postfix_expression is building
\*   type_token, identifier   the locals of parse_program kept across
\*               parse_function
\* The value a parse function returns is m.ret, an optional pointer.
\* ------------------------------------------------------------------------

Frame(fn, at, node) ==
    [fn |-> fn, at |-> at, node |-> node, args |-> <<>>,
     type_token |-> "none", identifier |-> <<>>]

\* the frame of the running function, and the frames of its callers
running(m) == m.stack[Len(m.stack)]

callers(m) == SubSeq(m.stack, 1, Len(m.stack) - 1)

\* the functions of the expression grammar
ExpressionFunctions ==
    {"parse_expression", "parse_assignment_expression",
     "parse_logical_or_expression", "parse_logical_and_expression",
     "parse_equality_expression", "parse_relational_expression",
     "parse_additive_expression", "parse_multiplicative_expression",
     "parse_unary_expression", "parse_postfix_expression",
     "parse_primary_expression"}

\* the running expression function calls callee and waits for it as frame
call_parse(m, frame, callee) ==
    [m EXCEPT !.stack = callers(m) \o <<frame, Frame(callee, "entry", <<>>)>>]

\* the running expression function returns value: a caller of the expression
\* grammar goes on when it is run next, any other caller goes on at once
return_expression(m, value) ==
    LET back == [m EXCEPT !.stack = callers(m), !.ret = value]
    IN  IF back.stack = <<>> THEN back
        ELSE IF running(back).fn \in ExpressionFunctions THEN back
        ELSE Call("expression_parsed", [back EXCEPT !.stack = callers(back)],
                  <<running(back), value>>)

match_token(m, type) == m.current_token.type = type

parser_error(m, message) ==
    error_report_location(m, m.current_token.line, m.current_token.column, message)

\* advance_token(parser->lexer); parser->current_token = peek_token(...)
next_token(m) ==
    LET taken(a) ==
            [a EXCEPT !.current_token = peek_token(a).ret,
                      !.token_lexeme = a.lexeme,
                      !.consumed = a.consumed + 1]
    IN  taken(advance_token(m))

\* expect_token that goes on to the next token after a mismatch
expect_token_lenient(m, type) ==
    IF m.current_token.type = type
    THEN [Call("next_token", m, <<>>) EXCEPT !.ret = 1]
    ELSE LET e == parser_error(m, <<"Expected token ", type, ", got ",
                                    m.current_token.type>>)
         IN  [Call("next_token", e, <<>>) EXCEPT !.ret = 0]

expect_token(m, type) ==
    IF m.current_token.type = type
    THEN [Call("next_token", m, <<>>) EXCEPT !.ret = 1]
    ELSE [parser_error(m, <<"Expected token ", type, ", got ", m.current_token.type>>)
             EXCEPT !.ret = 0]

\* atoi of a run of digits
RECURSIVE atoi_from(_, _)
atoi_from(digits, acc) ==
    IF digits = <<>> \/ ~isdigit(Head(digits)) THEN acc
    ELSE atoi_from(Tail(digits),
                   10 * acc + (CHOOSE v \in 0..9 :
                                  Head(digits) = <<"0","1","2","3","4","5","6","7","8","9">>[v + 1]))

atoi(value) == atoi_from(value, 0)

\* the node n with one field of its data assigned
SetData(n, field, v) == [n EXCEPT !.data = [n.data EXCEPT ![field] = v]]

\* slot = child, as the code writes it under "if (child)"
SetIfPresent(n, field, child) ==
    IF child = <<>> THEN n ELSE SetData(n, field, child)

\* parse_primary_expression with the offending token consumed after
\* "Expected expression"
parse_primary_expression_skip(m) ==
    IF running(m).at = "entry"
    THEN CASE match_token(m, "IDENTIFIER") ->
                  LET c == Call("create_ast_node", m, <<"AST_IDENTIFIER">>)
                      s == Call("strdup", c, <<m.current_token.value>>)
                  IN  return_expression(Call("expect_token", s, <<"IDENTIFIER">>),
                                        <<SetData(c.ret[1], "name", s.ret)>>)
           [] match_token(m, "INTEGER") ->
                  LET c == Call("create_ast_node", m, <<"AST_INTEGER">>)
                  IN  return_expression(Call("expect_token", c, <<"INTEGER">>),
                                        <<SetData(c.ret[1], "value",
                                                  atoi(m.current_token.value))>>)
           [] match_token(m, "CHARACTER") ->
                  LET c == Call("create_ast_node", m, <<"AST_CHARACTER">>)
                      v == IF m.current_token.value = <<>> THEN NUL
                           ELSE m.current_token.value[1]
                  IN  return_expression(Call("expect_token", c, <<"CHARACTER">>),
                                        <<SetData(c.ret[1], "value", v)>>)
           [] match_token(m, "STRING") ->
                  LET c == Call("create_ast_node", m, <<"AST_STRING">>)
                      s == Call("strdup", c, <<m.current_token.value>>)
                  IN  return_expression(Call("expect_token", s, <<"STRING">>),
                                        <<SetData(c.ret[1], "value", s.ret)>>)
           [] match_token(m, "LPAREN") ->
                  call_parse(Call("expect_token", m, <<"LPAREN">>),
                             Frame("parse_primary_expression", "expr", <<>>),
                             "parse_expression")
           [] OTHER ->
                  LET e == parser_error(m, <<"Expected expression">>)
                  IN  return_expression(
                          IF match_token(e, "EOF") THEN e
                          ELSE Call("next_token", e, <<>>), <<>>)
    ELSE return_expression(Call("expect_token", m, <<"RPAREN">>), m.ret)

\* The branches of parse_primary_expression test the one current token, so
\* at most one of them applies.
parse_primary_expression(m) ==
    IF running(m).at = "entry"
    THEN CASE match_token(m, "IDENTIFIER") ->
                  LET c == Call("create_ast_node", m, <<"AST_IDENTIFIER">>)
                      s == Call("strdup", c, <<m.current_token.value>>)
                  IN  return_expression(Call("expect_token", s, <<"IDENTIFIER">>),
                                        <<SetData(c.ret[1], "name", s.ret)>>)
           [] match_token(m, "INTEGER") ->
                  LET c == Call("create_ast_node", m, <<"AST_INTEGER">>)
                  IN  return_expression(Call("expect_token", c, <<"INTEGER">>),
                                        <<SetData(c.ret[1], "value",
                                                  atoi(m.current_token.value))>>)
           [] match_token(m, "CHARACTER") ->
                  LET c == Call("create_ast_node", m, <<"AST_CHARACTER">>)
                      v == IF m.current_token.value = <<>> THEN NUL
                           ELSE m.current_token.value[1]
                  IN  return_expression(Call("expect_token", c, <<"CHARACTER">>),
                                        <<SetData(c.ret[1], "value", v)>>)
           [] match_token(m, "STRING") ->
                  LET c == Call("create_ast_node", m, <<"AST_STRING">>)
                      s == Call("strdup", c, <<m.current_token.value>>)
                  IN  return_expression(Call("expect_token", s, <<"STRING">>),
                                        <<SetData(c.ret[1], "value", s.ret)>>)
           [] match_token(m, "LPAREN") ->
                  call_parse(Call("expect_token", m, <<"LPAREN">>),
                             Frame("parse_primary_expression", "expr", <<>>),
                             "parse_expression")
           [] OTHER ->
                  return_expression(parser_error(m, <<"Expected expression">>), <<>>)
    ELSE return_expression(Call("expect_token", m, <<"RPAREN">>), m.ret)

\* parse_postfix_expression waiting for an argument of call, with the
\* argument list args
argument(m, call, args) ==
    call_parse(m, [Frame("parse_postfix_expression", "arg", call) EXCEPT
                      !.args = args],
               "parse_expression")

\* the for (;;) of parse_postfix_expression; m.ret is the local variable
\* expr, an optional pointer
RECURSIVE postfix_loop(_)
postfix_loop(m) ==
    CASE match_token(m, "LBRACKET") ->
             LET c == Call("create_ast_node", m, <<"AST_SUBSCRIPT_EXPR">>)
             IN  call_parse(Call("expect_token", c, <<"LBRACKET">>),
                            Frame("parse_postfix_expression", "index",
                                  SetData(c.ret[1], "array", m.ret)),
                            "parse_expression")
      [] match_token(m, "LPAREN") ->
             LET c == Call("create_ast_node", m, <<"AST_CALL_EXPR">>)
                 call == SetData(c.ret[1], "function", m.ret)
                 l == Call("expect_token", c, <<"LPAREN">>)
             IN  IF ~match_token(l, "RPAREN")
                 THEN LET g == Call("create_ast_node", l, <<"AST_ARG_LIST">>)
                      IN  argument(g, call, g.ret[1])
                 ELSE postfix_loop([Call("expect_token", l, <<"RPAREN">>) EXCEPT
                                      !.ret = <<call>>])
      [] match_token(m, "INC") \/ match_token(m, "DEC") ->
             LET c == Call("create_ast_node", m, <<"AST_UNARY_EXPR">>)
                 op == IF match_token(c, "INC") THEN "OP_POST_INC"
                       ELSE "OP_POST_DEC"
                 e == IF match_token(c, "INC") THEN Call("expect_token", c, <<"INC">>)
                      ELSE Call("expect_token", c, <<"DEC">>)
             IN  postfix_loop([e EXCEPT
                                  !.ret = <<SetData(SetData(c.ret[1], "op", op),
                                                    "operand", m.ret)>>])
      [] OTHER -> return_expression(m, m.ret)

\* the call branch of parse_postfix_expression once an argument is parsed
\* (lines 823-842); m.ret is the argument
more_arguments(m) ==
    LET frame == running(m)
        a == Call("add_child", m, <<frame.args, m.ret>>)
    IN  IF match_token(a, "COMMA")
        THEN argument(Call("expect_token", a, <<"COMMA">>), frame.node, a.ret[1])
        ELSE postfix_loop([Call("expect_token", a, <<"RPAREN">>) EXCEPT
                             !.ret = <<SetData(frame.node, "arguments", a.ret)>>])

parse_postfix_expression(m) ==
    CASE running(m).at = "entry" ->
             call_parse(m, Frame("parse_postfix_expression", "expr", <<>>),
                        "parse_primary_expression")
      [] running(m).at = "expr" -> postfix_loop(m)
      [] running(m).at = "index" ->
             postfix_loop([Call("expect_token", m, <<"RBRACKET">>) EXCEPT
                              !.ret = <<SetIfPresent(running(m).node, "index", m.ret)>>])
      [] running(m).at = "arg" -> more_arguments(m)

\* parse_unary_expression with a prefix form of '++' and '--'
parse_unary_expression_prefix(m) ==
    CASE running(m).at = "entry" ->
             IF \/ match_token(m, "MINUS") \/ match_token(m, "NOT")
                \/ match_token(m, "BITNOT") \/ match_token(m, "INC")
                \/ match_token(m, "DEC")
             THEN LET c == Call("create_ast_node", m, <<"AST_UNARY_EXPR">>)
                      op == IF match_token(c, "MINUS") THEN "OP_NEGATE"
                            ELSE IF match_token(c, "NOT") THEN "OP_NOT"
                            ELSE IF match_token(c, "BITNOT") THEN "OP_BITWISE_NOT"
                            ELSE IF match_token(c, "INC") THEN "OP_PRE_INC"
                            ELSE "OP_PRE_DEC"
                  IN  call_parse(Call("expect_token", c, <<m.current_token.type>>),
                                 Frame("parse_unary_expression", "operand",
                                       SetData(c.ret[1], "op", op)),
                                 "parse_unary_expression")
             ELSE call_parse(m, Frame("parse_unary_expression", "postfix", <<>>),
                             "parse_postfix_expression")
      [] running(m).at = "operand" ->
             return_expression(m, <<SetIfPresent(running(m).node, "operand", m.ret)>>)
      [] running(m).at = "postfix" -> return_expression(m, m.ret)

parse_unary_expression(m) ==
    CASE running(m).at = "entry" ->
             IF \/ match_token(m, "MINUS") \/ match_token(m, "NOT")
                \/ match_token(m, "BITNOT")
             THEN LET c == Call("create_ast_node", m, <<"AST_UNARY_EXPR">>)
                      op == IF match_token(c, "MINUS") THEN "OP_NEGATE"
                            ELSE IF match_token(c, "NOT") THEN "OP_NOT"
                            ELSE "OP_BITWISE_NOT"
                  IN  call_parse(Call("expect_token", c, <<m.current_token.type>>),
                                 Frame("parse_unary_expression", "operand",
                                       SetData(c.ret[1], "op", op)),
                                 "parse_unary_expression")
             ELSE call_parse(m, Frame("parse_unary_expression", "postfix", <<>>),
                             "parse_postfix_expression")
      [] running(m).at = "operand" ->
             return_expression(m, <<SetIfPresent(running(m).node, "operand", m.ret)>>)
      [] running(m).at = "postfix" -> return_expression(m, m.ret)

\* a BinaryExpr node for op with the left operand set (the body of each
\* operator loop up to the parse of the right operand); ret is the node
binary_node(m, op, left) ==
    LET c == Call("create_ast_node", m, <<"AST_BINARY_EXPR">>)
    IN  [Call("expect_token", c, <<m.current_token.type>>) EXCEPT
            !.ret = SetData(SetData(c.ret[1], "op", op), "left", left)]

\* the body of each operator loop once the right operand is parsed:
\* if (right) node->data.binary_expr.right = right; left = node
binary_right(m) ==
    [m EXCEPT !.ret = <<SetIfPresent(running(m).node, "right", m.ret)>>]

\* In the operator loops below m.ret is the local variable left.  Each
\* parse function of a binary operator is its loop, entered once the left
\* operand is parsed and again once a right operand is parsed.

multiplicative_loop(m) ==
    IF match_token(m, "STAR") \/ match_token(m, "SLASH") \/ match_token(m, "PERCENT")
    THEN LET op == IF match_token(m, "STAR") THEN "OP_MULTIPLY"
                   ELSE IF match_token(m, "SLASH") THEN "OP_DIVIDE"
                   ELSE "OP_MODULO"
             b == Call("binary_node", m, <<op, m.ret>>)
         IN  call_parse(b, Frame("parse_multiplicative_expression", "right", b.ret),
                        "parse_unary_expression")
    ELSE return_expression(m, m.ret)

parse_multiplicative_expression(m) ==
    CASE running(m).at = "entry" ->
             call_parse(m, Frame("parse_multiplicative_expression", "left", <<>>),
                        "parse_unary_expression")
      [] running(m).at = "left" -> multiplicative_loop(m)
      [] running(m).at = "right" -> multiplicative_loop(binary_right(m))

\* additive_loop with the right operand parsed as a whole additive
\* expression, so that + and - group right to left
additive_loop_right(m) ==
    IF match_token(m, "PLUS") \/ match_token(m, "MINUS")
    THEN LET op == IF match_token(m, "PLUS") THEN "OP_ADD" ELSE "OP_SUBTRACT"
             b == Call("binary_node", m, <<op, m.ret>>)
         IN  call_parse(b, Frame("parse_additive_expression", "right", b.ret),
                        "parse_additive_expression")
    ELSE return_expression(m, m.ret)

additive_loop(m) ==
    IF match_token(m, "PLUS") \/ match_token(m, "MINUS")
    THEN LET op == IF match_token(m, "PLUS") THEN "OP_ADD" ELSE "OP_SUBTRACT"
             b == Call("binary_node", m, <<op, m.ret>>)
         IN  call_parse(b, Frame("parse_additive_expression", "right", b.ret),
                        "parse_multiplicative_expression")
    ELSE return_expression(m, m.ret)

parse_additive_expression(m) ==
    CASE running(m).at = "entry" ->
             call_parse(m, Frame("parse_additive_expression", "left", <<>>),
                        "parse_multiplicative_expression")
      [] running(m).at = "left" -> additive_loop(m)
      [] running(m).at = "right" -> additive_loop(binary_right(m))

relational_loop(m) ==
    IF \/ match_token(m, "LT") \/ match_token(m, "GT")
       \/ match_token(m, "LTE") \/ match_token(m, "GTE")
    THEN LET op == IF match_token(m, "LT") THEN "OP_LT"
                   ELSE IF match_token(m, "GT") THEN "OP_GT"
                   ELSE IF match_token(m, "LTE") THEN "OP_LTE"
                   ELSE "OP_GTE"
             b == Call("binary_node", m, <<op, m.ret>>)
         IN  call_parse(b, Frame("parse_relational_expression", "right", b.ret),
                        "parse_additive_expression")
    ELSE return_expression(m, m.ret)

parse_relational_expression(m) ==
    CASE running(m).at = "entry" ->
             call_parse(m, Frame("parse_relational_expression", "left", <<>>),
                        "parse_additive_expression")
      [] running(m).at = "left" -> relational_loop(m)
      [] running(m).at = "right" -> relational_loop(binary_right(m))

equality_loop(m) ==
    IF match_token(m, "EQ") \/ match_token(m, "NEQ")
    THEN LET op == IF match_token(m, "EQ") THEN "OP_EQ" ELSE "OP_NEQ"
             b == Call("binary_node", m, <<op, m.ret>>)
         IN  call_parse(b, Frame("parse_equality_expression", "right", b.ret),
                        "parse_relational_expression")
    ELSE return_expression(m, m.ret)

parse_equality_expression(m) ==
    CASE running(m).at = "entry" ->
             call_parse(m, Frame("parse_equality_expression", "left", <<>>),
                        "parse_relational_expression")
      [] running(m).at = "left" -> equality_loop(m)
      [] running(m).at = "right" -> equality_loop(binary_right(m))

logical_and_loop(m) ==
    IF match_token(m, "AND")
    THEN LET b == Call("binary_node", m, <<"OP_LOGICAL_AND", m.ret>>)
         IN  call_parse(b, Frame("parse_logical_and_expression", "right", b.ret),
                        "parse_equality_expression")
    ELSE return_expression(m, m.ret)

parse_logical_and_expression(m) ==
    CASE running(m).at = "entry" ->
             call_parse(m, Frame("parse_logical_and_expression", "left", <<>>),
                        "parse_equality_expression")
      [] running(m).at = "left" -> logical_and_loop(m)
      [] running(m).at = "right" -> logical_and_loop(binary_right(m))

logical_or_loop(m) ==
    IF match_token(m, "OR")
    THEN LET b == Call("binary_node", m, <<"OP_LOGICAL_OR", m.ret>>)
         IN  call_parse(b, Frame("parse_logical_or_expression", "right", b.ret),
                        "parse_logical_and_expression")
    ELSE return_expression(m, m.ret)

parse_logical_or_expression(m) ==
    CASE running(m).at = "entry" ->
             call_parse(m, Frame("parse_logical_or_expression", "left", <<>>),
                        "parse_logical_and_expression")
      [] running(m).at = "left" -> logical_or_loop(m)
      [] running(m).at = "right" -> logical_or_loop(binary_right(m))

parse_assignment_expression(m) ==
    CASE running(m).at = "entry" ->
             call_parse(m, Frame("parse_assignment_expression", "expr", <<>>),
                        "parse_logical_or_expression")
      [] running(m).at = "expr" ->
             IF match_token(m, "ASSIGN")
             THEN LET c == Call("create_ast_node", m, <<"AST_ASSIGN_EXPR">>)
                  IN  call_parse(Call("expect_token", c, <<"ASSIGN">>),
                                 Frame("parse_assignment_expression", "right",
                                       SetData(c.ret[1], "left", m.ret)),
                                 "parse_assignment_expression")
             ELSE return_expression(m, m.ret)
      [] running(m).at = "right" ->
             return_expression(m, <<SetIfPresent(running(m).node, "right", m.ret)>>)

parse_expression(m) ==
    IF running(m).at = "entry"
    THEN call_parse(m, Frame("parse_expression", "expr", <<>>),
                    "parse_assignment_expression")
    ELSE return_expression(m, m.ret)

\* the piece of the running expression function that is next
expression_step(m) ==
    CASE running(m).fn = "parse_expression" -> parse_expression(m)
      [] running(m).fn = "parse_assignment_expression" ->
             parse_assignment_expression(m)
      [] running(m).fn = "parse_logical_or_expression" ->
             parse_logical_or_expression(m)
      [] running(m).fn = "parse_logical_and_expression" ->
             parse_logical_and_expression(m)
      [] running(m).fn = "parse_equality_expression" -> parse_equality_expression(m)
      [] running(m).fn = "parse_relational_expression" ->
             parse_relational_expression(m)
      [] running(m).fn = "parse_additive_expression" -> parse_additive_expression(m)
      [] running(m).fn = "parse_multiplicative_expression" ->
             parse_multiplicative_expression(m)
      [] running(m).fn = "parse_unary_expression" -> parse_unary_expression(m)
      [] running(m).fn = "parse_postfix_expression" -> parse_postfix_expression(m)
      [] running(m).fn = "parse_primary_expression" -> parse_primary_expression(m)

\* ------------------------------------------------------------------------
\* The parser (part_001): declarations and statements.  A function of this
\* part has a frame only while it waits for a call; the frame on top of
\* m.stack is that of its caller.  The loops of parse_program and
\* parse_compound_statement are run one iteration at a time.
\* ------------------------------------------------------------------------

TypeTokens == {"INT", "CHAR", "VOID"}

\* type_token == TOKEN_INT ? TYPE_INT : type_token == TOKEN_CHAR ? TYPE_CHAR : TYPE_VOID
data_type(type_token) ==
    IF type_token = "INT" THEN "TYPE_INT"
    ELSE IF type_token = "CHAR" THEN "TYPE_CHAR" ELSE "TYPE_VOID"

\* a function of this part calls parse_expression and waits for it as frame
call_expression(m, frame) ==
    [m EXCEPT !.stack = m.stack \o <<frame, Frame("parse_expression", "entry", <<>>)>>]

\* while (!match_token(EOF) && !match_token(...)) { advance_token; peek_token }
\* with stops the kinds that end the loop
RECURSIVE skip_tokens(_, _)
skip_tokens(m, stops) ==
    IF m.current_token.type \in stops THEN m
    ELSE skip_tokens(Call("next_token", m, <<>>), stops)

\* the skip loop without the if (match_token(SEMICOLON)) that follows it
skip_statement_keep(m, stops) == skip_tokens(m, stops)

\* the skip loop followed by if (match_token(SEMICOLON)) expect_token(SEMICOLON)
skip_statement(m, stops) ==
    LET s == skip_tokens(m, stops)
    IN  IF match_token(s, "SEMICOLON") THEN Call("expect_token", s, <<"SEMICOLON">>) ELSE s

\* the optional [ size ] of a variable; ret is the variable node
array_declarator(m, var) ==
    IF match_token(m, "LBRACKET")
    THEN LET l == Call("expect_token", m, <<"LBRACKET">>)
             sized == match_token(l, "INTEGER")
             v == IF sized
                  THEN SetData(SetData(var, "is_array", 1), "array_size",
                               atoi(l.current_token.value))
                  ELSE var
             i == IF sized THEN Call("expect_token", l, <<"INTEGER">>) ELSE l
         IN  [Call("expect_token", i, <<"RBRACKET">>) EXCEPT !.ret = <<v>>]
    ELSE [m EXCEPT !.ret = <<var>>]

\* parse_variable_declaration after the optional initializer (lines
\* 413-415).  parse_declaration and parse_statement return what
\* parse_variable_declaration returns, so it returns to their caller.
variable_declared(m, var) ==
    LET e == Call("expect_token", m, <<"SEMICOLON">>)
    IN  Call("return_statement", e, << <<var>> >>)

\* parse_variable_declaration once the initializer is parsed
initializer_parsed(m, frame, init) ==
    variable_declared(m, SetIfPresent(frame.node, "initializer", init))

parse_variable_declaration(m, type_token) ==
    IF ~match_token(m, "IDENTIFIER")
    THEN LET e == parser_error(m, <<"Expected identifier in variable declaration">>)
         IN  Call("return_statement", e, << <<>> >>)
    ELSE LET c == Call("create_ast_node", m, <<"AST_VARIABLE_DECL">>)
             s == Call("strdup", c, <<c.current_token.value>>)
             var == SetData(SetData(c.ret[1], "type", data_type(type_token)),
                            "name", s.ret)
             a == array_declarator(Call("expect_token", s, <<"IDENTIFIER">>), var)
         IN  IF match_token(a, "ASSIGN")
             THEN call_expression(Call("expect_token", a, <<"ASSIGN">>),
                                  Frame("parse_variable_declaration", "initializer",
                                        a.ret[1]))
             ELSE variable_declared(a, a.ret[1])

parse_declaration(m) ==
    LET type_token == m.current_token.type
    IN  parse_variable_declaration(Call("expect_token", m, <<type_token>>), type_token)

\* parse_expression_statement once the expression is parsed (lines
\* 431-437); it returns to the caller of parse_statement
expression_statement_parsed(m, frame, expr) ==
    LET a == Call("add_child", m, <<frame.node, expr>>)
        e == Call("expect_token", a, <<"SEMICOLON">>)
    IN  Call("return_statement", e, <<a.ret>>)

parse_expression_statement(m) ==
    LET c == Call("create_ast_node", m, <<"AST_EXPR_STMT">>)
    IN  IF match_token(c, "SEMICOLON")
        THEN LET e == Call("expect_token", c, <<"SEMICOLON">>)
             IN  Call("return_statement", e, <<c.ret>>)
        ELSE call_expression(c, Frame("parse_expression_statement", "expr", c.ret[1]))

\* parse_return_statement once the value is parsed (lines 510-517)
value_parsed(m, frame, value) ==
    LET e == Call("expect_token", m, <<"SEMICOLON">>)
    IN  Call("return_statement", e, << <<SetIfPresent(frame.node, "value", value)>> >>)

parse_return_statement(m) ==
    LET c == Call("create_ast_node", m, <<"AST_RETURN_STMT">>)
        r == Call("expect_token", c, <<"RETURN">>)
    IN  IF ~match_token(r, "SEMICOLON")
        THEN call_expression(r, Frame("parse_return_statement", "value", c.ret[1]))
        ELSE LET e == Call("expect_token", r, <<"SEMICOLON">>)
             IN  Call("return_statement", e, <<c.ret>>)

\* one parameter after its type specifier (lines 241-262, and again lines
\* 276-297); ret is the parameter list
parameter(m, type_token, param_list) ==
    IF match_token(m, "IDENTIFIER")
    THEN LET c == Call("create_ast_node", m, <<"AST_PARAMETER">>)
             s == Call("strdup", c, <<c.current_token.value>>)
             param == SetData(SetData(c.ret[1], "type", data_type(type_token)),
                              "name", s.ret)
             e == Call("expect_token", s, <<"IDENTIFIER">>)
         IN  IF match_token(e, "LBRACKET")
             THEN LET l == Call("expect_token", e, <<"LBRACKET">>)
                      r == Call("expect_token", l, <<"RBRACKET">>)
                  IN  Call("add_child", r, <<param_list, <<SetData(param, "is_array", 1)>> >>)
             ELSE Call("add_child", e, <<param_list, <<param>> >>)
    ELSE [m EXCEPT !.ret = <<param_list>>]

\* while (match_token(COMMA)) of parse_parameter_list
more_parameters(m, param_list) ==
    IF match_token(m, "COMMA")
    THEN LET e == Call("expect_token", m, <<"COMMA">>)
         IN  IF e.current_token.type \in TypeTokens
             THEN LET type_token == e.current_token.type
                      p == parameter(Call("expect_token", e, <<type_token>>), type_token,
                                     param_list)
                  IN  Call("more_parameters", p, <<p.ret[1]>>)
             ELSE Call("more_parameters", e, <<param_list>>)
    ELSE [m EXCEPT !.ret = <<param_list>>]

\* parse_parameter_list that returns NULL for a lone void
parse_parameter_list_void_absent(m) ==
    LET c == Call("create_ast_node", m, <<"AST_PARAM_LIST">>)
    IN  IF c.current_token.type \in TypeTokens
        THEN LET type_token == c.current_token.type
                 e == Call("expect_token", c, <<type_token>>)
             IN  IF type_token = "VOID" /\ ~match_token(e, "IDENTIFIER")
                 THEN [e EXCEPT !.ret = <<>>]
                 ELSE LET p == parameter(e, type_token, c.ret[1])
                      IN  Call("more_parameters", p, <<p.ret[1]>>)
        ELSE Call("more_parameters", c, <<c.ret[1]>>)
parse_parameter_list(m) ==
    LET c == Call("create_ast_node", m, <<"AST_PARAM_LIST">>)
    IN  IF c.current_token.type \in TypeTokens
        THEN LET type_token == c.current_token.type
                 e == Call("expect_token", c, <<type_token>>)
             IN  IF type_token = "VOID" /\ ~match_token(e, "IDENTIFIER")
                 THEN [e EXCEPT !.ret = c.ret]
                 ELSE LET p == parameter(e, type_token, c.ret[1])
                      IN  Call("more_parameters", p, <<p.ret[1]>>)
        ELSE Call("more_parameters", c, <<c.ret[1]>>)

\* parse_function up to the function body (lines 194-207); ret is the
\* function node
function_header(m) ==
    LET c == Call("create_ast_node", m, <<"AST_FUNCTION">>)
        l == Call("expect_token", c, <<"LPAREN">>)
    IN  IF ~match_token(l, "RPAREN")
        THEN LET params == Call("parse_parameter_list", l, <<>>)
             IN  [Call("expect_token", params, <<"RPAREN">>) EXCEPT
                     !.ret = <<SetIfPresent(c.ret[1], "parameters", params.ret)>>]
        ELSE [Call("expect_token", l, <<"RPAREN">>) EXCEPT !.ret = c.ret]

\* parse_program adds child to the program (add_child(program, ...)), with
\* the frame of parse_program on top of m.stack
add_to_program(m, child) ==
    LET a == Call("add_child", m, <<running(m).node, child>>)
    IN  [a EXCEPT !.stack = callers(m) \o <<[running(m) EXCEPT !.node = a.ret[1]]>>]

\* parse_program after parse_function returned function (lines 114-123)
function_parsed(m, function, type_token, identifier) ==
    add_to_program(m, <<SetData(SetData(function, "return_type", data_type(type_token)),
                                "name", identifier)>>)

\* parse_compound_statement up to its loop (lines 306-309)
enter_compound_statement(m) ==
    LET c == Call("create_ast_node", m, <<"AST_COMPOUND_STMT">>)
        e == Call("expect_token", c, <<"LBRACE">>)
    IN  [e EXCEPT !.stack = Append(e.stack,
                                   Frame("parse_compound_statement", "loop", c.ret[1]))]

\* the loop body of parse_compound_statement once parse_statement has
\* returned statement (lines 314-327)
statement_parsed(m, frame, statement) ==
    IF statement # <<>>
    THEN LET a == Call("add_child", m, <<frame.node, statement>>)
         IN  [a EXCEPT !.stack = Append(m.stack, [frame EXCEPT !.node = a.ret[1]])]
    ELSE LET s == skip_statement(m, {"SEMICOLON", "RBRACE", "EOF"})
         IN  [s EXCEPT !.stack = Append(m.stack, frame)]

\* parse_if_statement up to the call of parse_expression (lines 441-449)
parse_if_statement(m) ==
    LET c == Call("create_ast_node", m, <<"AST_IF_STMT">>)
        i == Call("expect_token", c, <<"IF">>)
    IN  call_expression(Call("expect_token", i, <<"LPAREN">>),
                        Frame("parse_if_statement", "condition", c.ret[1]))

\* parse_if_statement once the condition is parsed, up to the call of
\* parse_statement for the if branch (lines 450-457)
if_condition_parsed(m, frame, condition) ==
    LET r == Call("expect_token", m, <<"RPAREN">>)
    IN  Call("parse_statement",
             [r EXCEPT !.stack =
                 Append(r.stack, [frame EXCEPT
                                     !.at = "if_branch",
                                     !.node = SetIfPresent(frame.node, "condition",
                                                           condition)])], <<>>)

\* parse_if_statement once the if branch is parsed (lines 458-472)
if_branch_parsed(m, frame, if_branch) ==
    LET if_stmt == SetIfPresent(frame.node, "if_branch", if_branch)
    IN  IF match_token(m, "ELSE")
        THEN LET e == Call("expect_token", m, <<"ELSE">>)
             IN  Call("parse_statement", [e EXCEPT !.stack =
                                     Append(e.stack, [frame EXCEPT
                                                         !.at = "else_branch",
                                                         !.node = if_stmt])], <<>>)
        ELSE Call("return_statement", m, << <<if_stmt>> >>)

\* else_branch_parsed that leaves the else branch out of the node
else_branch_parsed_dropped(m, frame, else_branch) ==
    Call("return_statement", m, << <<frame.node>> >>)

\* parse_if_statement once the else branch is parsed (lines 467-472)
else_branch_parsed(m, frame, else_branch) ==
    Call("return_statement", m, << <<SetIfPresent(frame.node, "else_branch", else_branch)>> >>)

\* parse_while_statement up to the call of parse_expression (lines 476-484)
parse_while_statement(m) ==
    LET c == Call("create_ast_node", m, <<"AST_WHILE_STMT">>)
        w == Call("expect_token", c, <<"WHILE">>)
    IN  call_expression(Call("expect_token", w, <<"LPAREN">>),
                        Frame("parse_while_statement", "condition", c.ret[1]))

\* parse_while_statement once the condition is parsed, up to the call of
\* parse_statement for the body (lines 485-492)
while_condition_parsed(m, frame, condition) ==
    LET r == Call("expect_token", m, <<"RPAREN">>)
    IN  Call("parse_statement",
             [r EXCEPT !.stack =
                 Append(r.stack, [frame EXCEPT
                                     !.at = "body",
                                     !.node = SetIfPresent(frame.node, "condition",
                                                           condition)])], <<>>)

\* parse_while_statement once the body is parsed (lines 493-497)
body_parsed(m, frame, body) ==
    Call("return_statement", m, << <<SetIfPresent(frame.node, "body", body)>> >>)

\* parse_function once the body is parsed (lines 212-220)
function_body_parsed(m, frame, body) ==
    function_parsed(m, SetIfPresent(frame.node, "body", body), frame.type_token,
                    frame.identifier)

\* a statement function returns statement (an optional pointer) to the
\* call on top of m.stack, which goes on from where it waits
return_statement(m, statement) ==
    LET frame == running(m)
        caller == [m EXCEPT !.stack = callers(m)]
    IN  CASE frame.fn = "parse_compound_statement" ->
                 statement_parsed(caller, frame, statement)
          [] frame.fn = "parse_if_statement" /\ frame.at = "if_branch" ->
                 if_branch_parsed(caller, frame, statement)
          [] frame.fn = "parse_if_statement" /\ frame.at = "else_branch" ->
                 else_branch_parsed(caller, frame, statement)
          [] frame.fn = "parse_while_statement" ->
                 body_parsed(caller, frame, statement)
          [] frame.fn = "parse_function" ->
                 function_body_parsed(caller, frame, statement)

parse_statement(m) ==
    CASE m.current_token.type \in TypeTokens -> parse_declaration(m)
      [] match_token(m, "IF") -> parse_if_statement(m)
      [] match_token(m, "WHILE") -> parse_while_statement(m)
      [] match_token(m, "RETURN") -> parse_return_statement(m)
      [] match_token(m, "LBRACE") -> enter_compound_statement(m)
      [] OTHER -> parse_expression_statement(m)

\* parse_compound_statement after its loop (lines 330-332), with its frame
\* on top of m.stack
leave_compound_statement(m) ==
    LET e == Call("expect_token", m, <<"RBRACE">>)
    IN  Call("return_statement", [e EXCEPT !.stack = callers(m)],
             << <<running(m).node>> >>)

\* while the current token is on the line given and is not EOF: advance
RECURSIVE skip_line_tokens(_, _)
skip_line_tokens(m, line) ==
    IF match_token(m, "EOF") \/ m.current_token.line # line THEN m
    ELSE skip_line_tokens(Call("next_token", m, <<>>), line)

\* a preprocessor directive that ends with its line
directive_to_line_end(m) ==
    LET p == Call("expect_token", m, <<"POUND">>)
    IN  IF match_token(p, "IDENTIFIER")
        THEN LET s == Call("strdup", p, <<p.current_token.value>>)
                 k == skip_line_tokens(Call("expect_token", s, <<"IDENTIFIER">>),
                                       m.current_token.line)
             IN  Call("free", k, <<s.ret[1].id>>)
        ELSE p

\* a preprocessor directive in parse_program (lines 74-96)
directive(m) ==
    LET p == Call("expect_token", m, <<"POUND">>)
    IN  IF match_token(p, "IDENTIFIER")
        THEN LET s == Call("strdup", p, <<p.current_token.value>>)
                 k == skip_statement(Call("expect_token", s, <<"IDENTIFIER">>),
                                     {"EOF", "SEMICOLON"})
             IN  Call("free", k, <<s.ret[1].id>>)
        ELSE p

\* a global variable in parse_program after the optional initializer
\* (lines 157-158)
global_declared(m, variable) ==
    add_to_program(Call("expect_token", m, <<"SEMICOLON">>), <<variable>>)

\* a global variable in parse_program once the initializer is parsed
global_initializer_parsed(m, frame, init) ==
    global_declared(m, SetIfPresent(frame.node, "initializer", init))

\* a global variable in parse_program (lines 127-161), with the frame of
\* parse_program on top of m.stack
global_variable(m, type_token, identifier) ==
    LET c == Call("create_ast_node", m, <<"AST_VARIABLE_DECL">>)
        variable == SetData(SetData(c.ret[1], "type", data_type(type_token)),
                            "name", identifier)
        a == Call("array_declarator", c, <<variable>>)
    IN  IF match_token(a, "ASSIGN")
        THEN call_expression(Call("expect_token", a, <<"ASSIGN">>),
                             Frame("parse_program", "initializer", a.ret[1]))
        ELSE global_declared(a, a.ret[1])

\* a function in parse_program (lines 112-124) with parse_function (lines
\* 193-221)
function(m, type_token, identifier) ==
    LET h == Call("function_header", m, <<>>)
    IN  IF match_token(h, "LBRACE")
        THEN enter_compound_statement(
                 [h EXCEPT !.stack =
                      Append(h.stack,
                             [Frame("parse_function", "body", h.ret[1]) EXCEPT
                                 !.type_token = type_token,
                                 !.identifier = identifier])])
        ELSE function_parsed(Call("expect_token", h, <<"SEMICOLON">>), h.ret[1],
                             type_token, identifier)

\* one iteration of the loop of parse_program (lines 72-187)
program_iteration(m) ==
    IF match_token(m, "POUND") THEN directive(m)
    ELSE IF m.current_token.type \in TypeTokens
    THEN LET type_token == m.current_token.type
             t == Call("expect_token", m, <<type_token>>)
         IN  IF match_token(t, "IDENTIFIER")
             THEN LET s == Call("strdup", t, <<t.current_token.value>>)
                      e == Call("expect_token", s, <<"IDENTIFIER">>)
                  IN  IF match_token(e, "LPAREN")
                      THEN function(e, type_token, s.ret)
                      ELSE global_variable(e, type_token, s.ret)
             ELSE skip_statement(
                      parser_error(t, <<"Expected identifier after type specifier">>),
                      {"EOF", "SEMICOLON"})
    ELSE skip_statement(parser_error(m, <<"Expected type specifier">>),
                        {"EOF", "SEMICOLON"})

\* the caller of parse_expression goes on with the expression it returned
expression_parsed(m, frame, expr) ==
    CASE frame.fn = "parse_variable_declaration" -> initializer_parsed(m, frame, expr)
      [] frame.fn = "parse_program" -> global_initializer_parsed(m, frame, expr)
      [] frame.fn = "parse_expression_statement" ->
             expression_statement_parsed(m, frame, expr)
      [] frame.fn = "parse_return_statement" -> value_parsed(m, frame, expr)
      [] frame.fn = "parse_if_statement" -> if_condition_parsed(m, frame, expr)
      [] frame.fn = "parse_while_statement" -> while_condition_parsed(m, frame, expr)

\* ------------------------------------------------------------------------
\* Call(fn, m, a) is the call of the function named fn on the machine m with
\* the arguments a.  The functions that call each other in a cycle, or that
\* are called from many places, are called through this operator.
\* ------------------------------------------------------------------------

Call(fn, m, a) ==
    CASE fn = "expect_token" -> expect_token(m, a[1])
      [] fn = "create_ast_node" -> create_ast_node(m, a[1])
      [] fn = "return_statement" -> return_statement(m, a[1])
      [] fn = "binary_node" -> binary_node(m, a[1], a[2])
      [] fn = "strdup" -> strdup(m, a[1])
      [] fn = "add_child" -> add_child(m, a[1], a[2])
      [] fn = "malloc" -> malloc(m)
      [] fn = "more_parameters" -> more_parameters(m, a[1])
      [] fn = "parse_statement" -> parse_statement(m)
      [] fn = "next_token" -> next_token(m)
      [] fn = "init_lexer" -> init_lexer(m)
      [] fn = "advance_token" -> advance_token(m)
      [] fn = "realloc" -> realloc(m, a[1])
      [] fn = "expression_parsed" -> expression_parsed(m, a[1], a[2])
      [] fn = "parse_parameter_list" -> parse_parameter_list(m)
      [] fn = "free" -> free(m, a[1])
      [] fn = "array_declarator" -> array_declarator(m, a[1])
      [] fn = "function_header" -> function_header(m)
      [] fn = "peek_token" -> peek_token(m)
      [] fn = "expression_step" -> expression_step(m)
      [] fn = "program_iteration" -> program_iteration(m)
      [] fn = "leave_compound_statement" -> leave_compound_statement(m)
      [] fn = "free_ast" -> free_ast(m, a[1])

\* ------------------------------------------------------------------------
\* State
\* ------------------------------------------------------------------------

VARIABLES
    file,          \* the FILE: [data, pos, eof]
    lexer,         \* the Lexer: [buffer, buffer_size, position, line, column, current,
                   \* lexeme]
    parser,        \* the Parser: [current_token, lexeme]
    heap,          \* the allocator: [next_id, live, bad_free, lexemes]
    error_count,   \* error.c: static int error_count
    stderr,        \* the diagnostics written, in order: [line, column, message]
    pc,            \* where the driver is
    stack,         \* the calls of parse functions that are open, innermost last
    result,        \* what the parse function that returned last returned
    junk,          \* the byte uninitialised memory happens to hold
    valid,         \* history: the bytes the last fread put in the buffer
    off,           \* history: the number of advance_char calls
    tok_off,       \* history: the value of off where the current token began
    out,           \* history: the tokens advance_token produced
    consumed,      \* history: the number of tokens the parser consumed
    stall,         \* history: loop iterations in a row that consumed no token
    head,          \* history: the tokens consumed and the calls open when a
                   \* loop of the parser was last at its condition
    input          \* history: how the input was made

vars == <<file, lexer, parser, heap, error_count, stderr, pc, stack, result,
          junk, valid, off, tok_off, out, consumed, stall, head, input>>

lexvars == <<file, lexer, error_count, stderr, junk, valid, off, tok_off>>

\* the variables as the machine record of the operators
Machine(ub) ==
    [data |-> file.data, fpos |-> file.pos, feof |-> file.eof,
     buffer |-> lexer.buffer, buffer_size |-> lexer.buffer_size,
     position |-> lexer.position, line |-> lexer.line, column |-> lexer.column,
     current |-> lexer.current, lexeme |-> lexer.lexeme,
     current_token |-> parser.current_token, token_lexeme |-> parser.lexeme,
     next_id |-> heap.next_id, live |-> heap.live, bad_free |-> heap.bad_free,
     lexemes |-> heap.lexemes,
     error_count |-> error_count, stderr |-> stderr,
     valid |-> valid, off |-> off, tok_off |-> tok_off, consumed |-> consumed,
     stack |-> stack, junk |-> junk, ub |-> ub, crashed |-> FALSE, ret |-> result]

\* the machine record written back to the variables
Commit(m) ==
    /\ file' = [data |-> m.data, pos |-> m.fpos, eof |-> m.feof]
    /\ lexer' = [buffer |-> m.buffer, buffer_size |-> m.buffer_size,
                 position |-> m.position, line |-> m.line, column |-> m.column,
                 current |-> m.current, lexeme |-> m.lexeme]
    /\ parser' = [current_token |-> m.current_token, lexeme |-> m.token_lexeme]
    /\ heap' = [next_id |-> m.next_id, live |-> m.live, bad_free |-> m.bad_free,
                lexemes |-> m.lexemes]
    /\ error_count' = m.error_count
    /\ stderr' = m.stderr
    /\ valid' = m.valid
    /\ off' = m.off
    /\ tok_off' = m.tok_off
    /\ consumed' = m.consumed
    /\ junk' = junk
    /\ input' = input

\* what the build does on undefined behaviour
UBOutcomes == {"crash", "garbage"}

\* what uninitialised memory may hold
JunkBytes == {NUL, "a", "'"}

\* the state with the driver at the place at, for the input d read through
\* a buffer of n bytes; how says how d was made
Started(d, n, how, at) ==
    /\ file = [data |-> d, pos |-> 0, eof |-> FALSE]
    /\ junk \in JunkBytes
    /\ lexer = [buffer |-> [i \in 1..n |-> junk], buffer_size |-> n,
                position |-> 0, line |-> 0, column |-> 0, current |-> NoToken,
                lexeme |-> <<>>]
    /\ parser = [current_token |-> NoToken, lexeme |-> <<>>]
    /\ heap = [next_id |-> 1, live |-> {}, bad_free |-> FALSE, lexemes |-> {}]
    /\ error_count = 0
    /\ stderr = <<>>
    /\ pc = at
    /\ stack = <<>>
    /\ result = <<>>
    /\ valid = 0
    /\ off = 0
    /\ tok_off = 0
    /\ out = <<>>
    /\ consumed = 0
    /\ stall = 0
    /\ head = [consumed |-> 0, depth |-> 0]
    /\ input = how

\* the state before init_lexer
Start(d, n, how) == Started(d, n, how, "start")

\* ------------------------------------------------------------------------
\* Inputs of the lexer specification
\* ------------------------------------------------------------------------

\* a buffer size that holds every input of the parser specifications whole
WholeBuf == 128

\* a buffer size that holds every input of the lexer specification whole
LexBuf == 16

BufferSizes == (2..MaxBuf) \cup {LexBuf}

CoreChars == {"a", "1", " ", "/", "*", "'", "\"", "\\"}

SeqsUpTo(S, n) == UNION {[1..k -> S] : k \in 0..n}

Keywords ==
    {<<"i","n","t">>, <<"c","h","a","r">>, <<"v","o","i","d">>, <<"i","f">>,
     <<"e","l","s","e">>, <<"w","h","i","l","e">>, <<"f","o","r">>,
     <<"r","e","t","u","r","n">>}

Words == Keywords \cup {<<"i">>, <<"i","n">>, <<"I","n","t">>, <<"_">>}

WordInputs ==
    {pre \o w \o post : w \in Words,
                        pre \in {<<>>, <<"x">>, <<" ">>},
                        post \in {<<>>, <<"_">>, <<"1">>, <<"e","g","e","r">>,
                                  <<" ">>, <<"+">>}}

OperatorInputs ==
    {<<c>> \o post : c \in TwoCharFirst,
                     post \in SeqsUpTo(TwoCharFirst \cup {"a", " "}, 2)}

OtherInputs ==
    {<<"a","\n","b">>, <<"/","/","a","\n","b">>, <<"@","a">>, <<"a","@">>,
     <<"'","\\","n","'">>, <<"'","a","'",";">>, <<"\"","\\","\"","\"">>,
     <<"/","*","\n","*","/","a">>, <<"/","*","a","b">>,
     <<" ","a","\n","b">>}

LexInputs == SeqsUpTo(CoreChars, MaxLen) \cup WordInputs \cup OperatorInputs
                 \cup OtherInputs

\* ------------------------------------------------------------------------
\* The lexer driven token by token
\* ------------------------------------------------------------------------

InitLex == \E d \in LexInputs, n \in BufferSizes : Start(d, n, <<"text">>)

\* the history of tokens: every token up to the first EOF, and whatever
\* differs from EOF after it
Produced(m) ==
    IF out # <<>> /\ out[Len(out)].type = "EOF" /\ m.current.type = "EOF"
    THEN out ELSE Append(out, m.current)

\* a call that ran into undefined behaviour and was killed leaves no state
Outcome(m) ==
    IF m.crashed THEN pc' = "crashed" /\ UNCHANGED <<lexvars, parser, heap, out,
                                                      consumed, input>>
    ELSE pc' = "lexing" /\ Commit(m) /\ out' = Produced(m)

InitLexer ==
    /\ pc = "start"
    /\ \E ub \in UBOutcomes : Outcome(Call("init_lexer", Machine(ub), <<>>))
    /\ UNCHANGED <<stack, result, stall, head>>

AdvanceToken ==
    /\ pc = "lexing"
    /\ \E ub \in UBOutcomes : Outcome(Call("advance_token", Machine(ub), <<>>))
    /\ UNCHANGED <<stack, result, stall, head>>

NextLex == InitLexer \/ AdvanceToken

SpecLex == InitLex /\ [][NextLex]_vars

\* peek_token between two tokens: the token it returns is left in result
PeekToken ==
    /\ pc = "lexing"
    /\ \E ub \in UBOutcomes :
           LET m == Call("peek_token", Machine(ub), <<>>)
           IN  Commit(m) /\ result' = m.ret
    /\ UNCHANGED <<pc, stack, out, stall, head>>

NextPeek == InitLexer \/ AdvanceToken \/ PeekToken

SpecPeek == InitLex /\ [][NextPeek]_vars

\* ------------------------------------------------------------------------
\* The parser set up on a lexer, and parse_expression called on it
\* ------------------------------------------------------------------------

\* the text of the pieces, one blank between two
RECURSIVE Join(_)
Join(pieces) ==
    IF pieces = <<>> THEN <<>>
    ELSE IF Len(pieces) = 1 THEN pieces[1]
    ELSE pieces[1] \o <<" ">> \o Join(Tail(pieces))

\* the binary operators of the grammar, lowest level first
OperatorLevels ==
    << {<<"=">>},
       {<<"|","|">>},
       {<<"&","&">>},
       {<<"=","=">>, <<"!","=">>},
       {<<"<">>, <<">">>, <<"<","=">>, <<">","=">>},
       {<<"+">>, <<"-">>},
       {<<"*">>, <<"/">>, <<"%">>} >>

OperatorSymbols == UNION {OperatorLevels[l] : l \in 1..Len(OperatorLevels)}

\* the primaries used as operands, by place
OperandPieces ==
    << <<<<"a">>>>, <<<<"7">>>>, <<<<"(">>, <<"c">>, <<")">>>>, <<<<"d">>>>,
       <<<<"'","e","'">>>>, <<<<"f">>>> >>

\* operand 1, then each operator followed by the next operand
RECURSIVE ExprPieces(_, _)
ExprPieces(ops, k) ==
    IF k > Len(ops) THEN <<>>
    ELSE <<ops[k]>> \o OperandPieces[k + 1] \o ExprPieces(ops, k + 1)

ExprText(ops) == Join(OperandPieces[1] \o ExprPieces(ops, 1))

InitExpr ==
    \E ops \in UNION {[1..k -> OperatorSymbols] : k \in 1..MaxOps} :
        Start(ExprText(ops), WholeBuf, <<"expression", ops>>)

\* init_parser
InitParser ==
    /\ pc = "lexing"
    /\ pc' = "parser"
    /\ parser' = [current_token |-> Call("peek_token", Machine("crash"), <<>>).ret,
                  lexeme |-> lexer.lexeme]
    /\ UNCHANGED <<lexvars, heap, stack, result, out, consumed, stall, head, input>>

\* what is kept of the value returned last: the value a waiting expression
\* function goes on with, and the value returned to the driver
returned(m) ==
    IF m.stack = <<>> THEN m.ret
    ELSE IF running(m).fn \in ExpressionFunctions /\ running(m).at # "entry"
    THEN m.ret
    ELSE <<>>

LoopFunctions == {"parse_program", "parse_compound_statement"}

\* the piece of the parser that ends with the machine m
Parsed(m) ==
    IF m.crashed
    THEN /\ pc' = "crashed"
         /\ UNCHANGED <<lexvars, parser, heap, stack, result, consumed, stall, head,
                        input>>
    ELSE /\ pc' = IF m.stack = <<>> THEN "expression" ELSE "parsing"
         /\ Commit(m)
         /\ stack' = m.stack
         /\ result' = returned(m)
         /\ IF m.stack # <<>> /\ running(m).fn \in LoopFunctions
            THEN /\ stall' = IF m.consumed = head.consumed /\ Len(m.stack) = head.depth
                             THEN stall + 1 ELSE 0
                 /\ head' = [consumed |-> m.consumed, depth |-> Len(m.stack)]
            ELSE UNCHANGED <<stall, head>>

\* the driver calls parse_expression
ParseExpression ==
    /\ pc = "parser"
    /\ pc' = "parsing"
    /\ stack' = <<Frame("parse_expression", "entry", <<>>)>>
    /\ UNCHANGED <<lexvars, parser, heap, result, out, consumed, stall, head, input>>

\* the running function of the expression grammar goes on to its next call
\* or return
ExpressionStep ==
    /\ pc = "parsing"
    /\ stack[Len(stack)].fn \in ExpressionFunctions
    /\ \E ub \in UBOutcomes : Parsed(Call("expression_step", Machine(ub), <<>>))
    /\ UNCHANGED out

NextExpr == InitLexer \/ InitParser \/ ParseExpression \/ ExpressionStep

SpecExpr == InitExpr /\ [][NextExpr]_vars

\* ------------------------------------------------------------------------
\* parse_program called on the parser, one loop iteration at a time, and
\* free_ast called on the tree it returns
\* ------------------------------------------------------------------------

\* the characters of a token written as a string: the words by name, every
\* other token by its characters
Piece(s) ==
    CASE s = "int" -> <<"i","n","t">>
      [] s = "char" -> <<"c","h","a","r">>
      [] s = "void" -> <<"v","o","i","d">>
      [] s = "if" -> <<"i","f">>
      [] s = "else" -> <<"e","l","s","e">>
      [] s = "while" -> <<"w","h","i","l","e">>
      [] s = "for" -> <<"f","o","r">>
      [] s = "return" -> <<"r","e","t","u","r","n">>
      [] s = "include" -> <<"i","n","c","l","u","d","e">>
      [] s = "++" -> <<"+","+">>
      [] s = "==" -> <<"=","=">>
      [] s = "'c'" -> <<"'","c","'">>
      [] s = "\"s\"" -> <<"\"","s","\"">>
      [] OTHER -> <<s>>

TextOf(tokens) == Join([i \in 1..Len(tokens) |-> Piece(tokens[i])])

RECURSIVE Flatten(_)
Flatten(seqs) == IF seqs = <<>> THEN <<>> ELSE Head(seqs) \o Flatten(Tail(seqs))

\* programs the grammar derives
Exprs ==
    { <<"a">>, <<"7">>, <<"'c'">>, <<"\"s\"">>, <<"a","=","7">>, <<"-","a">>,
      <<"!","a">>, <<"~","a">>, <<"f","(",")">>, <<"f","(","a",",","7",")">>,
      <<"a","[","7","]">>, <<"a","++">>, <<"(","a",")">>,
      <<"a","+","7","*","a">>, <<"a","==","7">> }

Params ==
    { <<>>, <<"void">>, <<"int","a">>, <<"int","a",",","char","b","[","]">>,
      <<"int">>, <<"int",",","char">>, <<"void",",","int","x">>,
      <<"char","b","[","]">> }

VarDecls ==
    { <<type, "a">> \o array \o init \o <<";">> :
          type \in {"int", "char"},
          array \in {<<>>, <<"[","3","]">>, <<"[","]">>},
          init \in {<<>>, <<"=","7">>} }

SimpleStmts ==
    {<<";">>, <<"return",";">>, <<"return","a",";">>, <<"return","a","+","7",";">>}
        \cup {e \o <<";">> : e \in Exprs} \cup VarDecls

FewStmts == {<<";">>, <<"a","=","7",";">>, <<"return","a",";">>, <<"{","}">>}

Stmts ==
    SimpleStmts
        \cup {<<"{">> \o s \o <<"}">> : s \in FewStmts}
        \cup {<<"if","(","a",")">> \o s : s \in FewStmts}
        \cup {<<"if","(","a",")">> \o s \o <<"else">> \o r :
                  s \in FewStmts, r \in FewStmts}
        \cup {<<"while","(","a",")">> \o s : s \in FewStmts}
        \cup {<<"if","(","a",")","if","(","7",")",";","else","return",";">>}

Bodies ==
    {<<"{","}">>} \cup {<<"{">> \o s \o <<"}">> : s \in Stmts}
        \cup {<<"{">> \o s \o r \o <<"}">> : s \in FewStmts, r \in FewStmts}

Directives ==
    { <<"#","include","x",";">>, <<"#","include","<","x",">",";">>,
      <<"#","include","x">>,
      <<"#","include","x","\n","int","a",";","int","b",";">> }

FewDecls ==
    { <<"int","a",";">>, <<"int","f","(",")","{","}">>, <<"#","include","x",";">>,
      <<"void","g","(","void",")",";">> }

TopDecls ==
    {<<type, "f", "(">> \o params \o <<")">> \o tail :
         type \in {"int", "void"}, params \in Params,
         tail \in {<<";">>, <<"{","}">>}}
        \cup {<<"int","f","(",")">> \o body : body \in Bodies}
        \cup VarDecls \cup Directives

Derivable ==
    TopDecls \cup {Flatten(ds) : ds \in SeqsUpTo(FewDecls, MaxDecls)}

\* programs the grammar derives and the parser accepts without a
\* diagnostic, and the same programs with one error put in
Bases ==
    { <<"int","f","(","int","a",")","{","a","=","7",";","return","a",";","}">>,
      <<"int","a","[","3","]","=","7",";">>,
      <<"int","f","(",")","{","if","(","a",")","a","=","7",";","else","{","}","}">> }

Without(tokens, k) == SubSeq(tokens, 1, k - 1) \o SubSeq(tokens, k + 1, Len(tokens))

WithByte(tokens, k) ==
    SubSeq(tokens, 1, k) \o <<"@">> \o SubSeq(tokens, k + 1, Len(tokens))

ExpectedTokens == {";", "(", ")", "[", "]", "{", "}"}

IsOperand(tokens, k) ==
    /\ k > 1
    /\ tokens[k] \in {"a", "7"}
    /\ tokens[k - 1] \in {"=", "return", "("}

\* token sequences of no particular form, alone and as a function body
SoupTokens ==
    {")", "]", ",", "else", "@", "#", ";", "{", "}", "a", "int", "if"}

Soups == SeqsUpTo(SoupTokens, MaxSoup)

\* expressions with an operand or an expected token missing, as the
\* initializer of a global variable
BrokenExprs ==
    { <<"(","7">>, <<"b","[","7">>, <<"b","[">>, <<"f","(","7">>,
      <<"f","(","7",",">>, <<"7","+">>, <<"7","*">>, <<"7","==">>, <<"-">>,
      <<"a","=">>, <<"b","[","7","(",")">> }

Malformed ==
    Soups \cup {<<"int","f","(",")","{">> \o s \o <<"}">> : s \in Soups}
          \cup {<<"int","main","(",")","{","return",";">>}
          \cup {<<"int","a","=">> \o e \o <<";">> : e \in BrokenExprs}

InitParse ==
    \/ \E tokens \in Derivable : Start(TextOf(tokens), WholeBuf, <<"derivable">>)
    \/ \E tokens \in Bases : \E k \in 0..Len(tokens) :
           Start(TextOf(WithByte(tokens, k)), WholeBuf, <<"single_error", "byte">>)
    \/ \E tokens \in Bases : \E k \in 1..Len(tokens) :
           /\ tokens[k] \in ExpectedTokens
           /\ Start(TextOf(Without(tokens, k)), WholeBuf, <<"single_error", "token">>)
    \/ \E tokens \in Bases : \E k \in 1..Len(tokens) :
           /\ IsOperand(tokens, k)
           /\ Start(TextOf(Without(tokens, k)), WholeBuf,
                    <<"single_error", "expression">>)
    \/ \E tokens \in Malformed : Start(TextOf(tokens), WholeBuf, <<"malformed">>)

\* parse_program up to its loop (lines 68-69)
ParseProgram ==
    /\ pc = "parser"
    /\ \E ub \in UBOutcomes :
           LET c == Call("create_ast_node", Machine(ub), <<"AST_PROGRAM">>)
           IN  Parsed([c EXCEPT !.stack = <<Frame("parse_program", "loop", c.ret[1])>>])
    /\ UNCHANGED out

\* one iteration of while (!match_token(parser, TOKEN_EOF))
ProgramIteration ==
    /\ pc = "parsing"
    /\ stack[Len(stack)].fn = "parse_program"
    /\ parser.current_token.type # "EOF"
    /\ stall < MaxStall
    /\ \E ub \in UBOutcomes : Parsed(Call("program_iteration", Machine(ub), <<>>))
    /\ UNCHANGED out

\* return program
ProgramReturn ==
    /\ pc = "parsing"
    /\ stack[Len(stack)].fn = "parse_program"
    /\ parser.current_token.type = "EOF"
    /\ pc' = "done"
    /\ result' = <<stack[Len(stack)].node>>
    /\ stack' = <<>>
    /\ UNCHANGED <<lexvars, parser, heap, out, consumed, stall, head, input>>

\* one iteration of the while of parse_compound_statement
BlockIteration ==
    /\ pc = "parsing"
    /\ stack[Len(stack)].fn = "parse_compound_statement"
    /\ parser.current_token.type \notin {"RBRACE", "EOF"}
    /\ stall < MaxStall
    /\ \E ub \in UBOutcomes : Parsed(Call("parse_statement", Machine(ub), <<>>))
    /\ UNCHANGED out

\* parse_compound_statement after its while
BlockReturn ==
    /\ pc = "parsing"
    /\ stack[Len(stack)].fn = "parse_compound_statement"
    /\ parser.current_token.type \in {"RBRACE", "EOF"}
    /\ \E ub \in UBOutcomes : Parsed(Call("leave_compound_statement", Machine(ub), <<>>))
    /\ UNCHANGED out

\* free_ast called on the tree parse_program returned
FreeAst ==
    /\ pc = "done"
    /\ pc' = "freed"
    /\ Commit(Call("free_ast", Machine("crash"), <<result>>))
    /\ result' = <<>>
    /\ UNCHANGED <<stack, out, stall, head>>

NextParse ==
    \/ InitLexer
    \/ InitParser
    \/ ParseProgram
    \/ ProgramIteration
    \/ ProgramReturn
    \/ BlockIteration
    \/ BlockReturn
    \/ ExpressionStep
    \/ FreeAst

SpecParse == InitParse /\ [][NextParse]_vars

\* ------------------------------------------------------------------------
\* The driver (compiler.c): main from its first line to the end of the
\* process.  input is <<"argv", argc, readable>>: the number of arguments
\* with the program name counted, and whether fopen can open the file
\* named.  The exit status is left in result.
\* ------------------------------------------------------------------------

\* argc as the caller of the program makes it: 0 for an empty argument
\* vector, 1 for the program name alone, 2 with the source file
ArgCounts == 0..2

\* the files the driver is run on
MainInputs ==
    {Flatten(ds) : ds \in SeqsUpTo(FewDecls, MaxDecls)} \cup Bases
        \cup {<<"int","a","=","@",";">>, <<"a",";">>}

InitMain ==
    \/ \E argc \in ArgCounts :
           /\ argc < 2
           /\ Started(<<>>, WholeBuf, <<"argv", argc, FALSE>>, "main")
    \/ \E tokens \in MainInputs, readable \in BOOLEAN :
           Started(TextOf(tokens), WholeBuf, <<"argv", 2, readable>>, "main")

\* the process ends with the exit status status
exit(status) ==
    /\ pc' = "exited"
    /\ result' = [status |-> status]

\* fprintf(stderr, ...): one message on standard error, no diagnostic counted
fprintf_stderr(message) ==
    stderr' = Append(stderr, [line |-> 0, column |-> 0, message |-> message])

\* main up to the call of init_lexer (lines 8-14).  With the program name
\* alone argv[1] is NULL, and fopen(NULL, "r") and printf("%s", NULL) are
\* undefined: the process is killed, or goes on without a file.
Main ==
    /\ pc = "main"
    /\ IF input[2] < 1
       THEN fprintf_stderr(<<"argument manquant">>) /\ exit(1)
       ELSE /\ UNCHANGED <<stderr, result>>
            /\ IF input[2] = 1
               THEN \E ub \in UBOutcomes :
                        pc' = IF ub = "crash" THEN "crashed" ELSE "no_file"
               ELSE pc' = IF input[3] THEN "start" ELSE "no_file"
    /\ UNCHANGED <<file, lexer, parser, heap, error_count, stack, junk, valid, off,
                   tok_off, out, consumed, stall, head, input>>

\* what a Token read through a null Lexer pointer may hold
GarbageTokens == {Token("EOF", <<>>, 0, 0), NoToken}

\* init_lexer(NULL, ...) returns NULL (lines 35-40 of lexeme.c), and
\* init_parser(NULL) reads lexer->current through the null pointer
\* (peek_token): the process is killed, or the parser holds a garbage token
NoFile ==
    /\ pc = "no_file"
    /\ \E ub \in UBOutcomes :
           IF ub = "crash" THEN pc' = "crashed" /\ UNCHANGED parser
           ELSE /\ pc' = "parser"
                /\ \E t \in GarbageTokens :
                       parser' = [current_token |-> t, lexeme |-> <<>>]
    /\ UNCHANGED <<file, lexer, heap, error_count, stderr, stack, result, junk, valid,
                   off, tok_off, out, consumed, stall, head, input>>

\* init_lexer returned a lexer
HasLexer == input[2] = 2 /\ input[3]

\* an iteration of the loop of parse_program with a lexer
MainIteration == HasLexer /\ ProgramIteration

\* an iteration of the loop of parse_program with the null lexer, at a
\* garbage token that begins no declaration: the diagnostic is reported and
\* the skip loop calls advance_token(NULL), which writes through the null
\* pointer; the process is killed, or the loop ends at a garbage EOF
NoLexerIteration ==
    /\ pc = "parsing"
    /\ ~HasLexer
    /\ stack[Len(stack)].fn = "parse_program"
    /\ parser.current_token.type # "EOF"
    /\ \E ub \in UBOutcomes :
           LET e == parser_error(Machine(ub), <<"Expected type specifier">>)
           IN  IF ub = "crash"
               THEN pc' = "crashed" /\ UNCHANGED <<parser, error_count, stderr>>
               ELSE /\ pc' = "parsing"
                    /\ parser' = [current_token |-> Token("EOF", <<>>, 0, 0),
                                  lexeme |-> <<>>]
                    /\ error_count' = e.error_count
                    /\ stderr' = e.stderr
    /\ UNCHANGED <<file, lexer, heap, stack, result, junk, valid, off, tok_off, out,
                   consumed, stall, head, input>>

\* main after parse_program (lines 19-27): print_ast, free_lexer, return 0
Exit ==
    /\ pc = "done"
    /\ exit(0)
    /\ UNCHANGED <<file, lexer, parser, heap, error_count, stderr, stack, junk, valid,
                   off, tok_off, out, consumed, stall, head, input>>

NextMain ==
    \/ Main
    \/ NoFile
    \/ InitLexer
    \/ InitParser
    \/ ParseProgram
    \/ MainIteration
    \/ NoLexerIteration
    \/ ProgramReturn
    \/ BlockIteration
    \/ BlockReturn
    \/ ExpressionStep
    \/ Exit

SpecMain == InitMain /\ [][NextMain]_vars

\* ------------------------------------------------------------------------
\* parse_expression called on a call expression.  An expression is given as
\* the tree the grammar assigns to it, and the input is the tree written
\* out as text.
\* ------------------------------------------------------------------------

Absent == [k |-> "absent"]

IdentifierTerm(name) == [k |-> "Identifier", name |-> <<name>>]

IntegerTerm(value) == [k |-> "Integer", int |-> value]

\* the call of callee with the arguments args, a sequence of terms
CallTerm(callee, args) ==
    [k |-> "CallExpr", function |-> callee,
     arguments |-> IF args = <<>> THEN Absent
                   ELSE [k |-> "ArgList", children |-> args]]

\* the tokens of a term
RECURSIVE TokensOf(_)
RECURSIVE TokensOfAll(_)
TokensOfAll(terms) ==
    IF terms = <<>> THEN <<>>
    ELSE IF Len(terms) = 1 THEN TokensOf(terms[1])
    ELSE TokensOf(terms[1]) \o <<",">> \o TokensOfAll(Tail(terms))

TokensOf(term) ==
    CASE term.k = "Identifier" -> <<term.name[1]>>
      [] term.k = "Integer" -> <<"7">>
      [] term.k = "CallExpr" ->
             TokensOf(term.function) \o <<"(">>
                 \o (IF term.arguments = Absent THEN <<>>
                     ELSE TokensOfAll(term.arguments.children))
                 \o <<")">>

\* the expressions called, and the expressions passed as arguments
Callees ==
    { IdentifierTerm("f"), CallTerm(IdentifierTerm("f"), <<>>),
      CallTerm(IdentifierTerm("f"), <<IntegerTerm(7)>>) }

ArgTerms ==
    { IntegerTerm(7), CallTerm(IdentifierTerm("g"), <<IdentifierTerm("a")>>) }

InitCall ==
    \E callee \in Callees, args \in SeqsUpTo(ArgTerms, MaxArgs) :
        Start(TextOf(TokensOf(CallTerm(callee, args))), WholeBuf,
              <<"call", CallTerm(callee, args)>>)

SpecCall == InitCall /\ [][NextExpr]_vars

\* ------------------------------------------------------------------------
\* parse_expression called on an operand with operators of C before and
\* after it, alone or followed by a binary operator of C and a second
\* operand.  input is <<"operators", pre, post, infix, pre2>>: the symbols
\* before and after the operand a, the binary operator, and the symbol
\* before the operand 7.
\* ------------------------------------------------------------------------

PrefixSymbols == {<<"-">>, <<"!">>, <<"~">>, <<"+","+">>, <<"-","-">>}

PostfixSymbols == {<<"+","+">>, <<"-","-">>}

InfixSymbols ==
    (OperatorSymbols \ {<<"=">>})
        \cup {<<"&">>, <<"|">>, <<"^">>, <<"<","<">>, <<">",">">>}

OperatorText(pre, post, infix, pre2) ==
    Join(pre \o <<<<"a">>>> \o post
             \o (IF infix = <<>> THEN <<>> ELSE infix \o pre2 \o <<<<"7">>>>))

InitOps ==
    \E pre \in SeqsUpTo(PrefixSymbols, 1), post \in SeqsUpTo(PostfixSymbols, MaxPostfix),
       infix \in SeqsUpTo(InfixSymbols, 1), pre2 \in SeqsUpTo(PrefixSymbols, 1) :
        /\ infix = <<>> => pre2 = <<>>
        /\ Start(OperatorText(pre, post, infix, pre2), WholeBuf,
                 <<"operators", pre, post, infix, pre2>>)

SpecOps == InitOps /\ [][NextExpr]_vars

\* ------------------------------------------------------------------------
\* parse_program called on a function whose body holds one statement made
\* of if statements, empty statements and returns.  input is <<"if", term>>,
\* the term the statement was written from; the condition of every if is
\* the identifier a.  The statement after the last else may be the
\* declaration 'int ;', which has no name.
\* ------------------------------------------------------------------------

EmptyTerm == [k |-> "ExprStmt"]

ReturnTerm == [k |-> "ReturnStmt"]

NamelessTerm == [k |-> "nameless"]

IfTerm(if_branch, else_branch) ==
    [k |-> "IfStmt", if_branch |-> if_branch, else_branch |-> else_branch]

\* the statement terms with n if statements
RECURSIVE TermsWith(_)
TermsWith(n) ==
    IF n = 0 THEN {EmptyTerm, ReturnTerm}
    ELSE UNION {{IfTerm(t, e) :
                    t \in TermsWith(i),
                    e \in IF i = n - 1 THEN {EmptyTerm, ReturnTerm, Absent}
                          ELSE TermsWith(n - 1 - i)} : i \in 0..(n - 1)}

StatementTerms(most) == UNION {TermsWith(n) : n \in 0..most}

\* the tokens of a statement term
RECURSIVE StatementTokens(_)
StatementTokens(term) ==
    CASE term.k = "ExprStmt" -> <<";">>
      [] term.k = "ReturnStmt" -> <<"return", ";">>
      [] term.k = "nameless" -> <<"int", ";">>
      [] term.k = "IfStmt" ->
             <<"if", "(", "a", ")">> \o StatementTokens(term.if_branch)
                 \o (IF term.else_branch = Absent THEN <<>>
                     ELSE <<"else">> \o StatementTokens(term.else_branch))

\* the tokens of the function before its statement
FunctionHead == <<"void", "f", "(", ")", "{">>

InitIf ==
    \E term \in StatementTerms(MaxIfs)
                    \cup {IfTerm(t, NamelessTerm) : t \in StatementTerms(MaxIfs - 1)} :
        Start(TextOf(FunctionHead \o StatementTokens(term) \o <<"}">>),
              WholeBuf, <<"if", term>>)

SpecIf == InitIf /\ [][NextParse]_vars

\* ------------------------------------------------------------------------
\* expect_token called on the parser with a kind of the caller's choice
\* ------------------------------------------------------------------------

ExpectPieces == {"a", "7", ";", "int", ")", "@"}

ExpectKinds == {"IDENTIFIER", "INTEGER", "SEMICOLON", "INT", "RPAREN", "EOF"}

InitExpect ==
    \E tokens \in SeqsUpTo(ExpectPieces, MaxTokens) :
        Start(TextOf(tokens), WholeBuf, <<"tokens">>)

\* the call expect_token(parser, kind) that ends with the machine m; result
\* keeps the kind asked for and the value returned
Expected(m, kind) ==
    IF m.crashed
    THEN /\ pc' = "crashed"
         /\ UNCHANGED <<lexvars, parser, heap, result, consumed, input>>
    ELSE /\ pc' = "parser"
         /\ Commit(m)
         /\ result' = [kind |-> kind, ret |-> m.ret]

ExpectToken ==
    /\ pc = "parser"
    /\ consumed + error_count < MaxCalls
    /\ \E kind \in ExpectKinds, ub \in UBOutcomes :
           Expected(Call("expect_token", Machine(ub), <<kind>>), kind)
    /\ UNCHANGED <<stack, out, stall, head>>

NextExpect == InitLexer \/ InitParser \/ ExpectToken

SpecExpect == InitExpect /\ [][NextExpect]_vars

\* ------------------------------------------------------------------------
\* Properties of the lexer (checked under SpecLex)
\* ------------------------------------------------------------------------

IsPrefix(s, t) == Len(s) <= Len(t) /\ \A i \in 1..Len(s) : s[i] = t[i]

\* the cursor has been moved past the end of the input
OverAdvanced == off > Len(file.data)

\* The lexer holding the whole input d in one buffer: the machine after
\* init_lexer with a buffer of Len(d) + 1 bytes
WholeMachine(d) ==
    Call("init_lexer", [data |-> d, fpos |-> 0, feof |-> FALSE,
                buffer |-> [i \in 1..(Len(d) + 1) |-> NUL],
                buffer_size |-> Len(d) + 1,
                position |-> 0, line |-> 0, column |-> 0, current |-> NoToken,
                lexeme |-> <<>>, lexemes |-> {}, bad_free |-> FALSE,
                error_count |-> 0, stderr |-> <<>>,
                valid |-> 0, off |-> 0, tok_off |-> 0,
                junk |-> NUL, ub |-> "crash", crashed |-> FALSE, ret |-> <<>>], <<>>)

\* the tokens of the machine m up to and including the first EOF
RECURSIVE TokensFrom(_)
TokensFrom(m) ==
    IF m.current.type = "EOF" THEN <<m.current>>
    ELSE <<m.current>> \o TokensFrom(Call("advance_token", m, <<>>))

WholeTokens(d) == TokensFrom(WholeMachine(d))

\* C2: for every input the tokens produced are finitely many non-EOF tokens
\* followed by EOF, and after EOF only EOF: the lexer is never killed before
\* it has produced EOF, and the history holds EOF at most once, as its last
\* token.
C2_TokenStreamEndsWithEOF ==
    /\ pc # "crashed"
    /\ \A i \in 1..Len(out) : out[i].type = "EOF" => i = Len(out)

\* C2: the part of the claim that the code keeps: once the current token is
\* EOF, every later advance_token leaves it EOF.
C2_EOFIsSticky == [][lexer.current.type = "EOF" => lexer'.current.type = "EOF"]_vars

\* C7: the tokens produced (kind, lexeme, line, column) are those of the
\* lexer that holds the whole input in one buffer, whatever the buffer size
\* and wherever a refill falls.
C7_RefillTransparent ==
    /\ pc # "crashed"
    /\ ~OverAdvanced => IsPrefix(out, WholeTokens(file.data))

\* C8: the cursor is at most the number of valid bytes in the buffer.
C8_CursorWithinValid == lexer.position <= valid

\* C8: no byte beyond the end of the input is scanned as source text: once
\* the input is exhausted the only token produced is EOF.
C8_NothingScannedPastEnd ==
    [][(pc = "lexing" /\ off >= Len(file.data)) => lexer'.current.type = "EOF"]_vars

\* the longest prefix of s made of letters, digits and '_'
RECURSIVE MaximalRun(_)
MaximalRun(s) ==
    IF s = <<>> \/ ~(isalnum(Head(s)) \/ Head(s) = "_") THEN <<>>
    ELSE <<Head(s)>> \o MaximalRun(Tail(s))

\* the reserved words and their kinds
ReservedKind ==
    [w \in Keywords |->
        CASE w = <<"i","n","t">> -> "INT"
          [] w = <<"c","h","a","r">> -> "CHAR"
          [] w = <<"v","o","i","d">> -> "VOID"
          [] w = <<"i","f">> -> "IF"
          [] w = <<"e","l","s","e">> -> "ELSE"
          [] w = <<"w","h","i","l","e">> -> "WHILE"
          [] w = <<"f","o","r">> -> "FOR"
          [] w = <<"r","e","t","u","r","n">> -> "RETURN"]

\* the input from the place where the current token began
FromToken == SubSeq(file.data, tok_off + 1, Len(file.data))

\* C9: a token that begins with a letter or '_' has the maximal run as its
\* lexeme, and the keyword kind exactly when the run is a reserved word.
C9_KeywordExclusivity ==
    /\ pc # "crashed"
    /\ (/\ pc = "lexing"
        /\ tok_off < Len(file.data)
        /\ (isalpha(file.data[tok_off + 1]) \/ file.data[tok_off + 1] = "_"))
       => LET run == MaximalRun(FromToken)
          IN  /\ lexer.current.value = run
              /\ lexer.current.type =
                     IF run \in Keywords THEN ReservedKind[run] ELSE "IDENTIFIER"

\* the two-character operators of the token table and their kinds
LongOperators ==
    { <<"+","+","INC">>, <<"-","-","DEC">>, <<"=","=","EQ">>, <<"!","=","NEQ">>,
      <<"<","=","LTE">>, <<"<","<","SHL">>, <<">","=","GTE">>, <<">",">","SHR">>,
      <<"&","&","AND">>, <<"|","|","OR">> }

\* the one-character kinds of the characters that can begin a longer operator
ShortOperators ==
    { <<"+","PLUS">>, <<"-","MINUS">>, <<"=","ASSIGN">>, <<"!","NOT">>,
      <<"<","LT">>, <<">","GT">>, <<"&","BITAND">>, <<"|","BITOR">> }

\* C10: a token that begins with one of + - = ! < > & | is the
\* two-character operator when the next character completes one, and then
\* two characters are consumed; otherwise it is the one-character operator
\* and one character is consumed.
C10_LongestMatch ==
    (/\ pc = "lexing"
     /\ tok_off < Len(file.data)
     /\ file.data[tok_off + 1] \in {p[1] : p \in ShortOperators})
    => LET c == file.data[tok_off + 1]
           d == IF tok_off + 2 <= Len(file.data) THEN file.data[tok_off + 2] ELSE NUL
       IN  IF \E p \in LongOperators : p[1] = c /\ p[2] = d
           THEN /\ <<c, d, lexer.current.type>> \in LongOperators
                /\ lexer.current.value = <<c, d>>
                /\ off = tok_off + 2
           ELSE /\ <<c, lexer.current.type>> \in ShortOperators
                /\ lexer.current.value = <<c>>
                /\ off = tok_off + 1

\* a two-character operator whose characters lie on both sides of a refill
C10_Witness ==
    /\ pc = "lexing"
    /\ lexer.current.type = "GTE"
    /\ lexer.buffer_size = 2
    /\ tok_off = 1
    /\ lexer.position = 1

\* the position of the token t is not after that of the token u
NotAfter(t, u) == t.line < u.line \/ (t.line = u.line /\ t.column <= u.column)

\* C11: of two consecutive tokens of one input that are both not EOF, the
\* (line, column) of the later one is lexicographically not smaller than
\* that of the earlier one.
C11_PositionMonotone ==
    \A i \in 1..(Len(out) - 1) :
        (out[i].type # "EOF" /\ out[i + 1].type # "EOF")
            => NotAfter(out[i], out[i + 1])

\* two consecutive tokens, the later one on a later line and at a smaller
\* column
C11_Witness ==
    /\ Len(out) >= 2
    /\ out[1].type # "EOF" /\ out[2].type # "EOF"
    /\ out[2].line > out[1].line
    /\ out[2].column < out[1].column

\* the kinds of the reserved words
KeywordKinds == {"INT", "CHAR", "VOID", "IF", "ELSE", "WHILE", "FOR", "RETURN"}

\* the input bytes the current token was scanned from
TokenText == SubSeq(file.data, tok_off + 1, off)

\* the source form of the lexeme of the token t: a string literal's lexeme
\* stands between its two quotes
SourceForm(t) ==
    IF t.type = "STRING" THEN <<"\"">> \o t.value \o <<"\"">> ELSE t.value

\* C12: the lexeme of every identifier, number, string and operator token
\* (in source form) is the source text the token was scanned from, so that
\* the lexemes and the whitespace and comments skipped between them make up
\* the input again.  Keywords, error tokens, EOF and character literals,
\* whose lexeme is the decoded character, are left out.
C12_LexemeFaithful ==
    (/\ pc = "lexing"
     /\ ~OverAdvanced
     /\ lexer.current.type \notin KeywordKinds \cup {"ERROR", "EOF", "CHARACTER"})
    => SourceForm(lexer.current) = TokenText

\* C13: the lexeme of a String token is the source text between the
\* opening quote and the closing quote, every backslash and every escaped
\* byte included, and its length is the number of bytes between the two
\* quotes.  Stated for the lexer that holds the whole input in its buffer,
\* where no refill interferes.
C13_StringLexemeIsRawText ==
    (/\ pc = "lexing"
     /\ lexer.buffer_size = LexBuf
     /\ lexer.current.type = "STRING")
    => /\ lexer.current.value = SubSeq(file.data, tok_off + 2, off - 1)
       /\ Len(lexer.current.value) = off - tok_off - 2

\* the input byte i places after the start of the current token; NUL past
\* the end of the input
TokenByte(i) ==
    IF tok_off + 1 + i <= Len(file.data) THEN file.data[tok_off + 1 + i] ELSE NUL

\* the escapes of a character literal and the bytes they stand for
Escapes ==
    { <<"n", "\n">>, <<"t", "\t">>, <<"r", "\r">>, <<"0", NUL>>, <<"\\", "\\">>,
      <<"'", "'">>, <<"\"", "\"">> }

\* the token is the Character token of the byte c
IsCharacter(t, c) == t.type = "CHARACTER" /\ t.value = (IF c = NUL THEN <<>> ELSE <<c>>)

\* C14: a token that begins with a single quote is the Character token of c
\* for the literal 'c' with c not a backslash, the Character token of the
\* decoded byte for a literal with one of the escapes, and an Error token
\* when another character follows the backslash or the closing quote is
\* missing.
C14_CharacterLiteral ==
    (pc = "lexing" /\ TokenByte(0) = "'")
    => LET c == TokenByte(1)
           d == TokenByte(2)
           e == TokenByte(3)
       IN  IF c # "\\"
           THEN IF c # NUL /\ d = "'" THEN IsCharacter(lexer.current, c)
                ELSE lexer.current.type = "ERROR"
           ELSE IF (\E p \in Escapes : p[1] = d) /\ e = "'"
                THEN \E p \in Escapes : p[1] = d /\ IsCharacter(lexer.current, p[2])
                ELSE lexer.current.type = "ERROR"

\* the line and the column of the byte i of the text d
LineOf(d, i) == 1 + Cardinality({j \in 1..(i - 1) : d[j] = "\n"})

ColumnOf(d, i) ==
    LET breaks == {j \in 1..(i - 1) : d[j] = "\n"}
    IN  IF breaks = {} THEN i
        ELSE i - (CHOOSE j \in breaks : \A k \in breaks : k <= j)

\* a block comment opens at the byte i of d and is not closed after it
OpensUnterminated(d, i) ==
    /\ i + 1 <= Len(d)
    /\ d[i] = "/" /\ d[i + 1] = "*"
    /\ \A j \in (i + 2)..(Len(d) - 1) : ~(d[j] = "*" /\ d[j + 1] = "/")

\* the diagnostics of unterminated block comments reported so far
CommentDiagnostics ==
    {k \in 1..Len(stderr) : stderr[k].message = <<"Unterminated multi-line comment">>}

\* C15: when an unterminated block comment has been reported, it has been
\* reported once, at the line and column where a block comment that is not
\* closed opens, and the token produced is EOF.
C15_UnterminatedComment ==
    (pc = "lexing" /\ CommentDiagnostics # {})
    => /\ Cardinality(CommentDiagnostics) = 1
       /\ \A k \in CommentDiagnostics :
              \E i \in 1..Len(file.data) :
                  /\ OpensUnterminated(file.data, i)
                  /\ stderr[k].line = LineOf(file.data, i)
                  /\ stderr[k].column = ColumnOf(file.data, i)
       /\ lexer.current.type = "EOF"

\* the current token is the Error token with the diagnostic text
ErrorToken(text) ==
    pc = "lexing" /\ lexer.current.type = "ERROR" /\ lexer.current.value = <<text>>

\* the current token is the Error token of an unrecognized byte
UnrecognizedByte ==
    /\ pc = "lexing" /\ lexer.current.type = "ERROR"
    /\ Len(lexer.current.value) = 2
    /\ lexer.current.value[1] = "Unexpected character: "

\* the token t is the Error token of an unterminated literal of one of kinds
Unterminated(t, kinds) ==
    /\ t.type = "ERROR"
    /\ \E k \in kinds : t.value = <<k>>

\* every token of the history that satisfies Unterminated(_, kinds) and has
\* a successor is followed by EOF
ThenEOF(kinds) ==
    \A i \in 1..(Len(out) - 1) :
        Unterminated(out[i], kinds) => out[i + 1].type = "EOF"

\* C16 as stated: after the Error token of an unrecognized byte the cursor
\* is at the byte right after it; after the Error token of an unterminated
\* string or character literal the cursor is at the end of the input and
\* the next token is EOF.
C16_ErrorThenEndOfInput ==
    /\ UnrecognizedByte => off = tok_off + 1
    /\ (\/ ErrorToken("Unterminated string literal")
        \/ ErrorToken("Unterminated character literal"))
       => off >= Len(file.data)
    /\ ThenEOF({"Unterminated string literal", "Unterminated character literal"})

\* C16 as the code has it: after the Error token of an unrecognized byte
\* the cursor is at the byte right after it; after the Error token of an
\* unterminated string literal the cursor is at the end of the input and the
\* next token is EOF; after the Error token of an unterminated character
\* literal the cursor is where the closing quote was looked for, two bytes
\* after the opening quote, or three when the literal holds an escape.
C16_ResumeAfterError ==
    /\ UnrecognizedByte => off = tok_off + 1
    /\ ErrorToken("Unterminated string literal") => off >= Len(file.data)
    /\ ThenEOF({"Unterminated string literal"})
    /\ ErrorToken("Unterminated character literal")
           => /\ off - tok_off \in {2, 3}
              /\ tok_off < Len(file.data)
                     => off = tok_off + (IF TokenByte(1) = "\\" THEN 3 ELSE 2)

\* the Error token of a character literal without its closing quote, with
\* input left after it
C16_Witness ==
    /\ ErrorToken("Unterminated character literal")
    /\ off < Len(file.data)


\* the input byte after the one the cursor is at, and NUL when the input
\* ends before it
ByteAfterCursor == IF off + 2 <= Len(file.data) THEN file.data[off + 2] ELSE NUL

\* what peek_char returns between two tokens, once current_char has been
\* called as the code does before every peek_char
Peeked == peek_char(current_char(Machine("crash")))

\* the statement of C27 about the lexer as it is between two tokens
PeekCharSeesNextByte ==
    (pc = "lexing" /\ ~OverAdvanced) =>
        /\ off < Len(file.data) => Peeked = ByteAfterCursor
        /\ (lexer.current.type = "SLASH" /\ tok_off + 2 <= Len(file.data))
               => file.data[tok_off + 2] \notin {"/", "*"}
        /\ CommentDiagnostics # {}
               => \E i \in 1..Len(file.data) : OpensUnterminated(file.data, i)

\* C27: peek_char returns the source character after the cursor whenever
\* the input has one, so that a '/' followed in the source by '/' or '*' is
\* never emitted as a Slash token, and a block comment that is closed in
\* the source by '*' '/' is never reported as unterminated.
C27_PeekChar == PeekCharSeesNextByte

\* C27: what the code keeps of the claim: the same for a lexer whose buffer
\* holds the whole input, where peek_char never looks past the buffer.
C27_PeekCharWithinBuffer == lexer.buffer_size = LexBuf => PeekCharSeesNextByte

\* C21: after init_lexer the current token is the first token of the
\* input: init_lexer is not killed, and the first token of the history is
\* the first token of the lexer that holds the whole input in one buffer.
C21_FirstTokenLoaded ==
    /\ pc = "crashed" => out # <<>>
    /\ out # <<>> => out[1] = WholeTokens(file.data)[1]

\* C21: the part of the claim that the code keeps: peek_token returns the
\* lexer's current token and changes nothing of the lexer, the file, the
\* diagnostics or the tokens produced, so that any number of peek_token calls
\* in a row return the same token.
C21_PeekTokenIsPure ==
    [][PeekToken => /\ result' = lexer.current
                    /\ UNCHANGED <<lexvars, out, parser, heap>>]_vars

\* peek_token has returned the token that init_lexer loaded
C21_Witness ==
    /\ pc = "lexing"
    /\ Len(out) = 1
    /\ result = lexer.current
    /\ lexer.current.type = "IDENTIFIER"

\* ------------------------------------------------------------------------
\* Properties of parse_expression (checked under SpecExpr)
\* ------------------------------------------------------------------------

\* what a tree says, without the allocation ids
RECURSIVE Shape(_)
Shape(node) ==
    IF node = <<>> THEN [k |-> "absent"]
    ELSE LET n == node[1]
         IN  CASE n.type = "AST_IDENTIFIER" ->
                      [k |-> "Identifier", name |-> n.data.name[1].text]
               [] n.type = "AST_INTEGER" -> [k |-> "Integer", int |-> n.data.value]
               [] n.type = "AST_CHARACTER" -> [k |-> "Character", char |-> n.data.value]
               [] n.type = "AST_BINARY_EXPR" ->
                      [k |-> "BinaryExpr", op |-> n.data.op,
                       left |-> Shape(n.data.left), right |-> Shape(n.data.right)]
               [] n.type = "AST_ASSIGN_EXPR" ->
                      [k |-> "AssignExpr",
                       left |-> Shape(n.data.left), right |-> Shape(n.data.right)]
               [] n.type = "AST_UNARY_EXPR" ->
                      [k |-> "UnaryExpr", op |-> n.data.op,
                       operand |-> Shape(n.data.operand)]
               [] n.type = "AST_SUBSCRIPT_EXPR" ->
                      [k |-> "SubscriptExpr",
                       array |-> Shape(n.data.array), index |-> Shape(n.data.index)]
               [] n.type = "AST_CALL_EXPR" ->
                      [k |-> "CallExpr", function |-> Shape(n.data.function),
                       arguments |-> Shape(n.data.arguments)]
               [] n.type = "AST_ARG_LIST" ->
                      [k |-> "ArgList",
                       children |-> [i \in 1..Len(n.children) |->
                                        Shape(<<n.children[i]>>)]]
               [] OTHER -> [k |-> n.type]

\* the level of an operator in the grammar: 1 binds least
LevelOf(sym) == CHOOSE l \in 1..Len(OperatorLevels) : sym \in OperatorLevels[l]

\* the operator tag of the tree for an operator symbol
TagOf(sym) ==
    CASE sym = <<"|","|">> -> "OP_LOGICAL_OR"
      [] sym = <<"&","&">> -> "OP_LOGICAL_AND"
      [] sym = <<"=","=">> -> "OP_EQ"
      [] sym = <<"!","=">> -> "OP_NEQ"
      [] sym = <<"<">> -> "OP_LT"
      [] sym = <<">">> -> "OP_GT"
      [] sym = <<"<","=">> -> "OP_LTE"
      [] sym = <<">","=">> -> "OP_GTE"
      [] sym = <<"+">> -> "OP_ADD"
      [] sym = <<"-">> -> "OP_SUBTRACT"
      [] sym = <<"*">> -> "OP_MULTIPLY"
      [] sym = <<"/">> -> "OP_DIVIDE"
      [] sym = <<"%">> -> "OP_MODULO"

\* the tree of an operand, by place
OperandShape(i) ==
    CASE i = 1 -> [k |-> "Identifier", name |-> <<"a">>]
      [] i = 2 -> [k |-> "Integer", int |-> 7]
      [] i = 3 -> [k |-> "Identifier", name |-> <<"c">>]
      [] i = 4 -> [k |-> "Identifier", name |-> <<"d">>]
      [] i = 5 -> [k |-> "Character", char |-> "e"]
      [] i = 6 -> [k |-> "Identifier", name |-> <<"f">>]

\* The tree the grammar gives operands lo..hi joined by ops[lo..hi-1]: the
\* expression splits at its operator of the lowest level, the first such
\* operator for "=" (which groups right to left) and the last for every
\* other level (which groups left to right).
RECURSIVE GrammarTree(_, _, _)
GrammarTree(ops, lo, hi) ==
    IF lo = hi THEN OperandShape(lo)
    ELSE LET low == CHOOSE l \in 1..Len(OperatorLevels) :
                        /\ \E i \in lo..(hi - 1) : LevelOf(ops[i]) = l
                        /\ \A i \in lo..(hi - 1) : LevelOf(ops[i]) >= l
             at == {i \in lo..(hi - 1) : LevelOf(ops[i]) = low}
             k == IF low = 1 THEN CHOOSE i \in at : \A j \in at : i <= j
                  ELSE CHOOSE i \in at : \A j \in at : i >= j
         IN  IF low = 1
             THEN [k |-> "AssignExpr", left |-> GrammarTree(ops, lo, k),
                   right |-> GrammarTree(ops, k + 1, hi)]
             ELSE [k |-> "BinaryExpr", op |-> TagOf(ops[k]),
                   left |-> GrammarTree(ops, lo, k),
                   right |-> GrammarTree(ops, k + 1, hi)]

\* C3: for a well-formed expression over primaries and the binary
\* operators, parse_expression returns the tree of the grammar (levels in
\* the order = || && equality relational additive multiplicative, one level
\* grouping left to right, assignment right to left), reports nothing and
\* stops at the end of the expression.
C3_PrecedenceAndAssociativity ==
    pc = "expression" =>
        /\ Shape(result) = GrammarTree(input[2], 1, Len(input[2]) + 1)
        /\ error_count = 0
        /\ parser.current_token.type = "EOF"

\* a - 7 * (c) has been parsed
C3_Witness ==
    /\ pc = "expression"
    /\ input[2] = << <<"-">>, <<"*">> >>
    /\ result # <<>>
    /\ result[1].data.op = "OP_SUBTRACT"

\* ------------------------------------------------------------------------
\* Properties of parse_program (checked under SpecParse)
\* ------------------------------------------------------------------------

\* C1: parse_program terminates with the current token at EOF: no
\* iteration of the declaration loop or of the statement loop ends where
\* it began, with no token consumed and the same calls open; and when
\* parse_program has returned the current token is EOF.
C1_ParseProgramTerminates ==
    /\ stall = 0
    /\ pc = "done" => parser.current_token.type = "EOF"

\* C4: parsing an input the grammar derives, made of valid tokens only,
\* reports no diagnostic.
C4_CleanParseCountsZero ==
    input[1] = "derivable" => error_count = 0

\* C5: when parse_program returns on an input with a single error put in,
\* the diagnostic count is exactly 1.
C5_OneErrorCountsOne ==
    (pc = "done" /\ input[1] = "single_error") => error_count = 1

\* C6: when free_ast has released the tree parse_program returned, every
\* allocation made during parsing has been released, and none twice.
C6_TreeOwnsEveryAllocation ==
    pc = "freed" => heap.live = {} /\ ~heap.bad_free

\* a tree built from a malformed input, with diagnostics, has been released
C6_Witness ==
    /\ pc = "freed"
    /\ input[1] = "malformed"
    /\ error_count > 1
    /\ heap.next_id > 8

\* the diagnostics of the lexer
LexicalMessage(message) ==
    message[1] \in {"Unexpected character: ", "Unterminated string literal",
                    "Unterminated character literal", "Invalid escape sequence",
                    "Unterminated multi-line comment"}

\* the diagnostics written by the step
NewDiagnostics == SubSeq(stderr', Len(stderr) + 1, Len(stderr'))

\* the step wrote the parser's diagnostic message at the token t, and
\* besides it only diagnostics of the lexer
OneParserDiagnostic(t, message) ==
    \E i \in 1..Len(NewDiagnostics) :
        /\ NewDiagnostics[i] =
               [line |-> t.line, column |-> t.column, message |-> message]
        /\ \A j \in (1..Len(NewDiagnostics)) \ {i} :
               LexicalMessage(NewDiagnostics[j].message)

\* parse_program is at the condition of its loop
AtTopLevel ==
    /\ pc = "parsing"
    /\ stack[Len(stack)].fn = "parse_program"
    /\ stall < MaxStall

\* the index in the tokens T of the token after the first ';' at or after
\* the index from, and of EOF when there is no ';'
AfterSemicolon(T, from) ==
    LET semis == {j \in from..Len(T) : T[j].type = "SEMICOLON"}
    IN  IF semis = {} THEN Len(T)
        ELSE 1 + (CHOOSE j \in semis : \A k \in semis : j <= k)

\* the step discarded the tokens of T from the index bad up to and including
\* the next ';', reported message at T[bad], left the Program node as it
\* was and is back at the condition of the loop of parse_program
Recovered(T, bad, message) ==
    /\ OneParserDiagnostic(T[bad], message)
    /\ consumed' = AfterSemicolon(T, bad) - 1
    /\ parser'.current_token = T[AfterSemicolon(T, bad)]
    /\ pc' = "parsing"
    /\ stack' = stack
    /\ heap' = heap

\* C17: when the loop of parse_program finds a token that is neither '#'
\* nor a type specifier, or a type specifier not followed by an identifier,
\* the iteration reports one diagnostic at the offending token, consumes
\* the tokens up to and including the next ';' (up to EOF when there is
\* none), adds no child to the Program node and leaves the parser at the
\* token after that ';'.
C17_TopLevelRecovery ==
    [][AtTopLevel =>
          LET T == WholeTokens(file.data)
              k == consumed + 1
          IN  /\ parser.current_token = T[k]
              /\ (T[k].type \notin TypeTokens \cup {"POUND", "EOF"})
                     => Recovered(T, k, <<"Expected type specifier">>)
              /\ (T[k].type \in TypeTokens /\ T[k + 1].type # "IDENTIFIER")
                     => Recovered(T, k + 1,
                                  <<"Expected identifier after type specifier">>)]_vars

\* parse_program has recovered from a token that begins no declaration, has
\* discarded tokens up to a ';' and is at the token after it, with input
\* left and nothing added to the Program node
C17_Witness ==
    /\ pc = "parsing"
    /\ Len(stack) = 1
    /\ stack[1].fn = "parse_program"
    /\ stack[1].node.children = <<>>
    /\ \E i \in 1..Len(stderr) : stderr[i].message = <<"Expected type specifier">>
    /\ consumed > 2
    /\ parser.current_token.type = "RETURN"

\* the step ends the parsing of a statement of a block: it leaves
\* parse_compound_statement at the condition of its loop without having
\* opened a call
StatementEnds ==
    /\ pc = "parsing" /\ pc' = "parsing"
    /\ stack' # <<>>
    /\ stack'[Len(stack')].fn = "parse_compound_statement"
    /\ Len(stack') <= Len(stack)

\* C18: when the step that ends a statement of a block reports a
\* diagnostic, the block goes on after the tokens of the failed statement:
\* the parser is at '}' or EOF, or the token consumed last is a ';'.
C18_BlockRecovery ==
    [][(StatementEnds /\ error_count' > error_count) =>
          LET T == WholeTokens(file.data)
          IN  \/ parser'.current_token.type \in {"RBRACE", "EOF"}
              \/ T[consumed'].type = "SEMICOLON"]_vars

\* the frame of the function that runs in the step
Top == stack[Len(stack)]

\* the token the parser is at
Current == parser.current_token

\* the step wrote exactly the diagnostic message at the current token
Reported(message) ==
    stderr' = Append(stderr, [line |-> Current.line, column |-> Current.column,
                              message |-> message])

\* the diagnostic of a failed expect_token(kind)
Missing(kind) == <<"Expected token ", kind, ", got ", Current.type>>

\* the step consumed no token and allocated nothing
NothingConsumed ==
    /\ parser' = parser
    /\ lexer' = lexer
    /\ consumed' = consumed
    /\ heap' = heap

\* the running function returned to its caller
ReturnedToCaller ==
    /\ pc' = "parsing"
    /\ stack' = SubSeq(stack, 1, Len(stack) - 1)

\* the kinds that begin a primary expression, and those that continue a
\* postfix expression
PrimaryStart == {"IDENTIFIER", "INTEGER", "CHARACTER", "STRING", "LPAREN"}

PostfixStart == {"LBRACKET", "LPAREN", "INC", "DEC"}

\* the functions of the left-associative binary operators
BinaryLoops ==
    {"parse_logical_or_expression", "parse_logical_and_expression",
     "parse_equality_expression", "parse_relational_expression",
     "parse_additive_expression", "parse_multiplicative_expression"}

\* the step of an expression function that finds an operand or an expected
\* token missing
InExpression(fn, at) ==
    pc = "parsing" /\ stack # <<>> /\ Top.fn = fn /\ Top.at = at

ExpectCalled ==
    /\ pc = "parser" /\ pc' = "parser"
    /\ consumed' # consumed \/ stderr' # stderr

\* the call consumed exactly one token of T and returned 1
OneTokenConsumed(T) ==
    /\ consumed' = consumed + 1
    /\ parser'.current_token = T[Min(consumed + 2, Len(T))]
    /\ lexer'.current = parser'.current_token
    /\ result'.ret = 1

\* the call left the lexer and the current token as they were, reported
\* one diagnostic and returned 0
MismatchReported ==
    /\ lexer' = lexer /\ file' = file /\ off' = off
    /\ parser' = parser
    /\ consumed' = consumed
    /\ Reported(Missing(result'.kind))
    /\ error_count' = error_count + 1
    /\ result'.ret = 0

\* C20 as stated: expect_token(kind) on a token of that kind consumes
\* exactly one token, reports no diagnostic and returns 1; on any other
\* token it leaves the lexer and the current token unchanged, reports
\* exactly one diagnostic and returns 0.
C20_ExpectTokenSilent ==
    [][ExpectCalled =>
          IF Current.type = result'.kind
          THEN /\ OneTokenConsumed(WholeTokens(file.data))
               /\ stderr' = stderr /\ error_count' = error_count
          ELSE MismatchReported]_vars

\* C20 as the code has it: on a token of the kind asked for, exactly one
\* token is consumed, 1 is returned and expect_token itself reports
\* nothing: the only diagnostic the call can write is the lexer's, for the
\* token scanned next.  On any other token the lexer and the current token
\* are unchanged, exactly one diagnostic is reported and 0 is returned.
C20_ExpectToken ==
    [][ExpectCalled =>
          IF Current.type = result'.kind
          THEN /\ OneTokenConsumed(WholeTokens(file.data))
               /\ Len(NewDiagnostics) <= 1
               /\ \A i \in 1..Len(NewDiagnostics) :
                      /\ LexicalMessage(NewDiagnostics[i].message)
                      /\ NewDiagnostics[i].line = parser'.current_token.line
                      /\ NewDiagnostics[i].column = parser'.current_token.column
               /\ error_count' = error_count + Len(NewDiagnostics)
          ELSE MismatchReported]_vars

\* expect_token has consumed a token and returned 1, and the token scanned
\* next was an unrecognized byte, which the lexer reported
C20_Witness ==
    /\ pc = "parser"
    /\ consumed = 1
    /\ result.ret = 1
    /\ parser.current_token.type = "ERROR"
    /\ Len(stderr) = 1

\* the token of T at the index i, and EOF past the end of T
TokenAt(T, i) == IF i <= Len(T) THEN T[i] ELSE T[Len(T)]

\* the tokens of T from the index k on begin a function: type IDENT '('
FunctionAt(T, k) ==
    /\ T[k].type \in TypeTokens
    /\ TokenAt(T, k + 1).type = "IDENTIFIER"
    /\ TokenAt(T, k + 2).type = "LPAREN"

\* the Function node the step of parse_program has built: the one whose body
\* is being parsed, or else the child added to the Program node last
BuiltFunction ==
    IF Len(stack') >= 2 /\ stack'[2].fn = "parse_function" THEN stack'[2].node
    ELSE LET children == stack'[1].node.children IN children[Len(children)]

\* the step wrote no diagnostic of the parser
NoParserDiagnostic ==
    \A i \in 1..Len(NewDiagnostics) : LexicalMessage(NewDiagnostics[i].message)

\* C22: a function whose parameter list is the keyword void alone gets a
\* ParamList node with no child in its parameters slot, and the parser
\* reports nothing for it; a function with the empty list '()' gets no node
\* in that slot.
C22_VoidParameterList ==
    [][AtTopLevel =>
          LET T == WholeTokens(file.data)
              k == consumed + 1
          IN  FunctionAt(T, k) =>
                  /\ (TokenAt(T, k + 3).type = "VOID" /\ TokenAt(T, k + 4).type = "RPAREN")
                         => /\ BuiltFunction.type = "AST_FUNCTION"
                            /\ Len(BuiltFunction.data.parameters) = 1
                            /\ BuiltFunction.data.parameters[1].type = "AST_PARAM_LIST"
                            /\ BuiltFunction.data.parameters[1].children = <<>>
                            /\ TokenAt(T, k + 5).type \in {"SEMICOLON", "LBRACE"}
                                   => NoParserDiagnostic
                  /\ TokenAt(T, k + 3).type = "RPAREN"
                         => /\ BuiltFunction.type = "AST_FUNCTION"
                            /\ BuiltFunction.data.parameters = <<>>]_vars

\* parse_program has returned a tree with the function g(void) as the
\* second declaration, after a function with the empty list
C22_Witness ==
    /\ pc = "done"
    /\ error_count = 0
    /\ Len(result[1].children) = 2
    /\ result[1].children[1].type = "AST_FUNCTION"
    /\ result[1].children[1].data.parameters = <<>>
    /\ result[1].children[2].type = "AST_FUNCTION"
    /\ result[1].children[2].data.return_type = "TYPE_VOID"
    /\ Len(result[1].children[2].data.parameters) = 1
    /\ result[1].children[2].data.parameters[1].children = <<>>

\* parse_compound_statement is at the condition of its loop, at a statement
InBlock ==
    /\ pc = "parsing"
    /\ stack[Len(stack)].fn = "parse_compound_statement"
    /\ parser.current_token.type \notin {"RBRACE", "EOF"}
    /\ stall < MaxStall

\* the declarator that begins at the index k of T has a bracket pair, and a
\* size between the brackets
Brackets(T, k) == TokenAt(T, k + 2).type = "LBRACKET"

Sized(T, k) == Brackets(T, k) /\ TokenAt(T, k + 3).type = "INTEGER"

\* the index in T of the token after the declarator that begins at k
AfterDeclarator(T, k) ==
    IF ~Brackets(T, k) THEN k + 2 ELSE IF Sized(T, k) THEN k + 5 ELSE k + 4

\* the tokens of T from the index k on are a variable declaration up to its
\* ';' or '=': type IDENT [ '[' [INT] ']' ]
VariableAt(T, k) ==
    /\ T[k].type \in TypeTokens
    /\ TokenAt(T, k + 1).type = "IDENTIFIER"
    /\ Brackets(T, k) => TokenAt(T, AfterDeclarator(T, k) - 1).type = "RBRACKET"
    /\ TokenAt(T, AfterDeclarator(T, k)).type \in {"SEMICOLON", "ASSIGN"}

\* the VariableDecl node the step has built: the one that waits for its
\* initializer, or else the child added last to the Program or block
DeclaredVariable ==
    IF stack'[Len(stack')].fn = "parse_expression"
    THEN stack'[Len(stack') - 1].node
    ELSE LET children == stack'[Len(stack')].node.children
         IN  children[Len(children)]

\* the node built for the declaration at the index k of T carries the
\* declared name and type, the array flag is_array, the size between the
\* brackets or 0, and no initializer when the declaration has none
Declared(T, k, is_array) ==
    /\ DeclaredVariable.type = "AST_VARIABLE_DECL"
    /\ Len(DeclaredVariable.data.name) = 1
    /\ DeclaredVariable.data.name[1].text = T[k + 1].value
    /\ DeclaredVariable.data.type = data_type(T[k].type)
    /\ DeclaredVariable.data.is_array = is_array
    /\ DeclaredVariable.data.array_size =
           (IF Sized(T, k) THEN atoi(T[k + 3].value) ELSE 0)
    /\ DeclaredVariable.data.initializer = <<>>

\* parse_expression returns the initializer of a declaration in the step
InitializerReturns ==
    /\ pc = "parsing"
    /\ Len(stack) >= 3
    /\ stack[Len(stack)].fn = "parse_expression"
    /\ stack[Len(stack)].at # "entry"
    /\ stack[Len(stack) - 1].at = "initializer"
    /\ stack[Len(stack) - 2].fn \in LoopFunctions

\* the declaration that waited for its initializer is added to the Program
\* or block with the expression returned in its initializer slot
InitializerStored ==
    /\ stack'[Len(stack')].fn \in LoopFunctions
    /\ DeclaredVariable =
           SetIfPresent(stack[Len(stack) - 1].node, "initializer", result)

\* a variable declaration begins at the token the loop is at
DeclarationBegins(T) ==
    \/ AtTopLevel /\ VariableAt(T, consumed + 1)
                  /\ TokenAt(T, consumed + 3).type # "LPAREN"
    \/ InBlock /\ VariableAt(T, consumed + 1)

\* C23: the VariableDecl node of a declaration, at top level or in a block,
\* carries the declared name and type, an array flag that is 1 exactly when
\* the declarator has a bracket pair, the size between the brackets or 0,
\* and as initializer the parsed expression, or none.
C23_VariableDecl ==
    [][LET T == WholeTokens(file.data)
       IN  /\ DeclarationBegins(T)
               => Declared(T, consumed + 1,
                           IF Brackets(T, consumed + 1) THEN 1 ELSE 0)
           /\ InitializerReturns => InitializerStored]_vars

\* C23: what the code keeps of the claim: the same, with an array flag that
\* is 1 exactly when there is a size between the brackets.
C23_ArrayFlagNeedsSize ==
    [][LET T == WholeTokens(file.data)
       IN  /\ DeclarationBegins(T)
               => Declared(T, consumed + 1,
                           IF Sized(T, consumed + 1) THEN 1 ELSE 0)
           /\ InitializerReturns => InitializerStored]_vars

\* ------------------------------------------------------------------------
\* Properties of call expressions (checked under SpecCall)
\* ------------------------------------------------------------------------

\* C24: for a call e(a1, ..., an) in well-formed input the CallExpr's
\* function slot holds the tree of e, and its arguments slot is absent
\* exactly when n = 0 and otherwise holds an ArgList with exactly n children,
\* the trees of a1..an in source order; nothing is reported.
C24_CallExpr ==
    pc = "expression" =>
        /\ Shape(result) = input[2]
        /\ Shape(result).arguments = Absent
               <=> TokensOf(input[2].function) \o <<"(", ")">> = TokensOf(input[2])
        /\ error_count = 0
        /\ parser.current_token.type = "EOF"

\* a call of the value of a call with more arguments than the capacity a
\* child vector starts with, the last of them a call, has been parsed
C24_Witness ==
    /\ pc = "expression"
    /\ Len(result) = 1
    /\ result[1].type = "AST_CALL_EXPR"
    /\ result[1].data.function[1].type = "AST_CALL_EXPR"
    /\ Len(result[1].data.arguments) = 1
    /\ Len(result[1].data.arguments[1].children) = MaxArgs
    /\ result[1].data.arguments[1].children_capacity > INITIAL_CHILDREN_CAPACITY
    /\ result[1].data.arguments[1].children[MaxArgs].type = "AST_CALL_EXPR"
    /\ result[1].data.arguments[1].children[1].type = "AST_INTEGER"

\* ------------------------------------------------------------------------
\* Properties of the driver (checked under SpecMain)
\* ------------------------------------------------------------------------

\* the driver prints one message to standard error and exits with a
\* non-zero status, without opening a file, lexing or parsing
UsageError ==
    /\ pc' = "exited"
    /\ result'.status # 0
    /\ Len(stderr') = Len(stderr) + 1
    /\ UNCHANGED <<file, lexer, parser, heap, stack, out, consumed>>

\* C25: started without the source-file argument (with the program name
\* alone, or with no argument vector at all), the driver prints a message to
\* standard error and exits with a non-zero status, without opening a
\* file, lexing or parsing.
C25_MissingArgument ==
    [][(pc = "main" /\ input[2] < 2) => UsageError]_vars

\* C25: what the code keeps of the claim: the message and the exit status 1
\* when the argument vector is empty, the program name missing too.
C25_EmptyArgumentVector ==
    [][(pc = "main" /\ input[2] < 1) => UsageError]_vars

\* the driver has exited after its message, having been started with an
\* empty argument vector
C25_Witness ==
    /\ pc = "exited"
    /\ input[2] = 0
    /\ result = [status |-> 1]
    /\ stderr # <<>>

RECURSIVE NodesOf(_)
RECURSIVE NodesOfAll(_)
NodesOfAll(nodes) ==
    IF nodes = <<>> THEN <<>>
    ELSE NodesOf(<<Head(nodes)>>) \o NodesOfAll(Tail(nodes))

NodesOf(node) ==
    IF node = <<>> THEN <<>>
    ELSE <<node[1]>> \o NodesOfAll(node[1].children)
                     \o NodesOfAll(owned_slots(node[1]))

\* the names and strings the nodes of a tree own
StringsOf(node) ==
    LET nodes == NodesOf(node)
    IN  UNION {{owned_strings(nodes[i])[j] : j \in 1..Len(owned_strings(nodes[i]))} :
               i \in 1..Len(nodes)}

\* the values of the identifier and string tokens among the first n of T
LexemesRead(T, n) ==
    {T[i].value : i \in {j \in 1..Min(n, Len(T)) : T[j].type \in {"IDENTIFIER", "STRING"}}}

\* the parser holds a copy of a token
HasToken == pc \in {"parser", "parsing", "expression", "done", "freed"}

\* C28: the only token lexeme allocated is the one of the lexer's current
\* token, so that at most one is live; once the parser has its copy of the
\* current token, the copy is the lexer's current token and its lexeme is
\* that live one; and every name or string of the tree parse_program returns
\* is a block of its own, live, shared with no other name, whose text is
\* the lexeme of an identifier or string token consumed before
C28_LexemeLifetime ==
    /\ Cardinality(heap.lexemes) <= 1
    /\ heap.lexemes = {lexer.lexeme[i] : i \in 1..Len(lexer.lexeme)}
    /\ HasToken => /\ parser.current_token = lexer.current
                   /\ parser.lexeme = lexer.lexeme
                   /\ Len(parser.lexeme) = 1
    /\ pc = "done" =>
           LET strings == StringsOf(result)
           IN  /\ \A s \in strings :
                      /\ s.id \in heap.live
                      /\ s.text \in LexemesRead(WholeTokens(file.data), consumed)
               /\ \A s, t \in strings : s.id = t.id => s = t

\* C28: parse_program has returned a tree with two names, copies of the
\* lexemes of tokens that are released, while the one lexeme live is that of
\* the EOF token, the sixth token or a later one
C28_Witness ==
    /\ pc = "done"
    /\ Cardinality(StringsOf(result)) >= 2
    /\ Cardinality(heap.lexemes) = 1
    /\ consumed >= 5
    /\ parser.current_token.type = "EOF"
    /\ error_count = 0

\* ------------------------------------------------------------------------
\* Properties of the operator tags (checked under SpecOps)
\* ------------------------------------------------------------------------

BinaryTags ==
    {"OP_ADD", "OP_SUBTRACT", "OP_MULTIPLY", "OP_DIVIDE", "OP_MODULO", "OP_EQ",
     "OP_NEQ", "OP_LT", "OP_GT", "OP_LTE", "OP_GTE", "OP_LOGICAL_AND",
     "OP_LOGICAL_OR"}

UnaryTags == {"OP_NEGATE", "OP_NOT", "OP_BITWISE_NOT", "OP_POST_INC", "OP_POST_DEC"}

\* the tag of the tree for a symbol after an operand
PostfixTagOf(sym) == IF sym = <<"+","+">> THEN "OP_POST_INC" ELSE "OP_POST_DEC"

\* the term e with the postfix operators post applied, the first innermost
RECURSIVE Postfixed(_, _)
Postfixed(e, post) ==
    IF post = <<>> THEN e
    ELSE Postfixed([k |-> "UnaryExpr", op |-> PostfixTagOf(Head(post)),
                    operand |-> e], Tail(post))

\* the first operand of the tree: the left operand of the binary expression
\* at the root if there is one, and the operand of the prefix operator
FirstOperand(shape, pre) ==
    LET whole == IF shape.k = "BinaryExpr" THEN shape.left ELSE shape
    IN  IF pre = <<>> THEN whole ELSE whole.operand

\* C29: in the tree parse_expression returns every BinaryExpr carries one of
\* the thirteen arithmetic, comparison and logical tags and every UnaryExpr
\* one of Negate, LogNot, BitNot, PostInc, PostDec, whatever operators of C
\* the input holds; and postfix '++'/'--' after the operand a yield PostInc
\* and PostDec nodes around the tree of a, the first operator innermost.
C29_OperatorTags ==
    pc = "expression" =>
        /\ \A i \in 1..Len(NodesOf(result)) :
               LET n == NodesOf(result)[i]
               IN  /\ n.type = "AST_BINARY_EXPR" => n.data.op \in BinaryTags
                   /\ n.type = "AST_UNARY_EXPR" => n.data.op \in UnaryTags
        /\ input[2] \in SeqsUpTo({<<"-">>, <<"!">>, <<"~">>}, 1) =>
               FirstOperand(Shape(result), input[2])
                   = Postfixed(IdentifierTerm("a"), input[3])

\* the expression - a ++ -- < ~ 7 has been parsed: a Lt node whose left
\* operand is Negate of PostDec of PostInc of a
C29_Witness ==
    /\ pc = "expression"
    /\ input = <<"operators", <<<<"-">>>>, <<<<"+","+">>, <<"-","-">>>>, <<<<"<">>>>,
                 <<<<"~">>>> >>
    /\ Len(result) = 1
    /\ result[1].type = "AST_BINARY_EXPR"
    /\ result[1].data.op = "OP_LT"
    /\ Shape(result).left.op = "OP_NEGATE"
    /\ Shape(result).left.operand.op = "OP_POST_DEC"
    /\ Shape(result).left.operand.operand.op = "OP_POST_INC"
    /\ Shape(result).right.op = "OP_BITWISE_NOT"
    /\ error_count = 0

\* ------------------------------------------------------------------------
\* Properties of if statements (checked under SpecIf)
\* ------------------------------------------------------------------------

\* what a statement says, as a term
RECURSIVE StatementShape(_)
StatementShape(node) ==
    IF node = <<>> THEN Absent
    ELSE IF node[1].type = "AST_IF_STMT"
    THEN IfTerm(StatementShape(node[1].data.if_branch),
                StatementShape(node[1].data.else_branch))
    ELSE IF node[1].type = "AST_EXPR_STMT" THEN EmptyTerm
    ELSE IF node[1].type = "AST_RETURN_STMT" THEN ReturnTerm
    ELSE [k |-> node[1].type]

\* the statement term ends in an if that has no else
RECURSIVE Open(_)
Open(term) ==
    /\ term.k = "IfStmt"
    /\ term.else_branch = Absent \/ Open(term.else_branch)

\* the open term with e as the else of the nearest if without one
RECURSIVE Attach(_, _)
Attach(term, e) ==
    IF term.else_branch # Absent
    THEN IfTerm(term.if_branch, Attach(term.else_branch, e))
    ELSE IF Open(term.if_branch) THEN IfTerm(Attach(term.if_branch, e), Absent)
    ELSE IfTerm(term.if_branch, e)

\* the term that the tokens of a term stand for when every else belongs to
\* the nearest if before it that has none
RECURSIVE Nearest(_)
Nearest(term) ==
    IF term.k # "IfStmt" THEN term
    ELSE IF term.else_branch = Absent THEN IfTerm(Nearest(term.if_branch), Absent)
    ELSE IF Open(Nearest(term.if_branch))
    THEN IfTerm(Attach(Nearest(term.if_branch), Nearest(term.else_branch)), Absent)
    ELSE IfTerm(Nearest(term.if_branch), Nearest(term.else_branch))

\* the statements of the body for the input term: an else before 'int ;'
\* gives its if no else branch, and the ';' is an empty statement
ExpectedStatements(term) ==
    IF term.k = "IfStmt" /\ term.else_branch = NamelessTerm
    THEN <<Nearest(IfTerm(term.if_branch, Absent)), EmptyTerm>>
    ELSE <<Nearest(term)>>

\* the statements of the body of the function parse_program returned
BodyStatements ==
    LET body == result[1].children[1].data.body[1]
    IN  [i \in 1..Len(body.children) |-> StatementShape(<<body.children[i]>>)]

\* the tokens at index k begin a declaration without a name, for which
\* parse_statement returns no node
Nameless(T, k) ==
    TokenAt(T, k).type \in TypeTokens /\ TokenAt(T, k + 1).type # "IDENTIFIER"

\* the number of tokens of T the statement of the shape takes from start on
RECURSIVE Extent(_, _, _)
Extent(T, shape, start) ==
    CASE shape.k = "ExprStmt" -> 1
      [] shape.k = "ReturnStmt" -> 2
      [] shape.k = "IfStmt" ->
             LET after == start + 4 + Extent(T, shape.if_branch, start + 4)
             IN  IF TokenAt(T, after).type # "ELSE" THEN after - start
                 ELSE IF shape.else_branch = Absent THEN after + 2 - start
                 ELSE after + 1 + Extent(T, shape.else_branch, after + 1) - start

\* every if statement of the shape has an else branch exactly when the
\* token after its then-statement is 'else' and, unless always is set, the
\* statement after the 'else' is no nameless declaration
RECURSIVE ElseBranches(_, _, _, _)
ElseBranches(T, shape, start, always) ==
    shape.k = "IfStmt" =>
        LET after == start + 4 + Extent(T, shape.if_branch, start + 4)
        IN  /\ shape.else_branch # Absent
                   <=> /\ TokenAt(T, after).type = "ELSE"
                       /\ always \/ ~Nameless(T, after + 1)
            /\ ElseBranches(T, shape.if_branch, start + 4, always)
            /\ shape.else_branch # Absent
                   => ElseBranches(T, shape.else_branch, after + 1, always)

\* the index of the first token of the body's first statement
FirstStatement == Len(FunctionHead) + 1

\* C30, as stated: every else belongs to the nearest if before it that has
\* none, and an if statement has an else branch exactly when an 'else'
\* token directly follows its then-statement
C30_ElseIffToken ==
    pc = "done" =>
        /\ BodyStatements = ExpectedStatements(input[2])
        /\ ElseBranches(WholeTokens(file.data), BodyStatements[1], FirstStatement, TRUE)

\* C30, amended: every else belongs to the nearest if before it that has
\* none, and an if statement has an else branch exactly when an 'else'
\* token directly follows its then-statement and the statement after the
\* else yields a node; after 'else int ;' the if has no else branch
C30_NearestIf ==
    pc = "done" =>
        /\ BodyStatements = ExpectedStatements(input[2])
        /\ ElseBranches(WholeTokens(file.data), BodyStatements[1], FirstStatement, FALSE)

\* 'if (a) if (a) ; else return ;' has been parsed: the outer if has no
\* else branch and the inner one has the return as its else branch
C30_Witness ==
    /\ pc = "done"
    /\ input[2] = IfTerm(IfTerm(EmptyTerm, Absent), ReturnTerm)
    /\ Len(BodyStatements) = 1
    /\ BodyStatements[1] = IfTerm(IfTerm(EmptyTerm, ReturnTerm), Absent)
    /\ error_count = 0

====
